---- MODULE Spec2Model ----
(***************************************************************************)
(* A model of the style-resolution and block-layout stages of the          *)
(* rendering engine (src/src/css.rs, dom.rs, style.rs, layout.rs).         *)
(*                                                                         *)
(* The engine is a pipeline of pure functions.  Every specification below  *)
(* draws the inputs of one group of functions from bounded sets in its     *)
(* initial predicate and applies the functions in its actions.             *)
(*                                                                         *)
(* Conventions                                                             *)
(*   Option<T>      a set with at most one element ({} is None), which is  *)
(*                  how the code itself consumes options (.iter().any(),   *)
(*                  .iter().count()).                                      *)
(*   String         a TLA+ string, except the "class" attribute and the    *)
(*                  class names, which are sequences of one-character      *)
(*                  strings so that splitting at spaces is computed.       *)
(*   HashMap<K,V>   a function whose DOMAIN is the set of keys present.    *)
(*   Vec<T>         a sequence.                                            *)
(*   &Node          a reference into a tree is the path from the root of   *)
(*                  that tree: the sequence of child positions (from 1).   *)
(***************************************************************************)
EXTENDS Integers, Sequences, FiniteSets, TLC

VARIABLES
  pc,          \* position of the driver: which function has been applied
  element,     \* dom::ElementData handed to the style functions
  selector,    \* css::Selector handed to matches / specificity
  rule,        \* css::Rule handed to match_rule
  stylesheet,  \* css::Stylesheet
  root_node,   \* dom::Node, the root of the document tree
  style_root,  \* style::StyledNode, the root of the styled tree
  node,        \* reference to the styled node or the box a function is called on
  layout_box,  \* layout::LayoutBox being built or laid out
  containing_block,  \* layout::Dimensions of the containing block
  css_parser,  \* css_parser::CSSParser before the call: position and input
  canvas,      \* painting::Canvas being painted on
  item,        \* painting::DisplayCommand handed to paint_item
  ret          \* value returned by the function applied last

vars == <<pc, element, selector, rule, stylesheet, root_node, style_root,
          node, layout_box, containing_block, css_parser, canvas, item, ret>>

\* The arguments, which no function changes.
args == <<element, selector, rule, stylesheet, root_node, containing_block,
          css_parser, item>>

\* Value of a variable that the running specification does not use.
Unused == "unused"

-----------------------------------------------------------------------------
(* Bounds of the input sets                                                *)

MaxClassAttrLen == 3
MaxClasses == 2
MaxSelectors == 2
MaxRules == 3
MaxNodes == 5
MaxStyledNodes == 4

\* All sequences over S of length lo..hi.
SeqsOf(S, lo, hi) == UNION {[1..n -> S] : n \in lo..hi}

Range(s) == {s[i] : i \in DOMAIN s}

-----------------------------------------------------------------------------
(* css.rs: selectors and specificity                                       *)

SimpleSelector(tag_name, id, classes) ==
  [tag_name |-> tag_name, id |-> id, classes |-> classes]

\* Ordering of (usize, usize, usize): Rust compares tuples lexicographically.
cmp(a, b) ==
  IF a[1] # b[1] THEN (IF a[1] < b[1] THEN "Less" ELSE "Greater")
  ELSE IF a[2] # b[2] THEN (IF a[2] < b[2] THEN "Less" ELSE "Greater")
  ELSE IF a[3] # b[3] THEN (IF a[3] < b[3] THEN "Less" ELSE "Greater")
  ELSE "Equal"

specificity_M1(sel) ==
  <<Len(sel.classes), Cardinality(sel.id), Cardinality(sel.tag_name)>>

specificity(sel) ==
  LET a == Cardinality(sel.id)
      b == Len(sel.classes)
      c == Cardinality(sel.tag_name)
  IN  <<a, b, c>>

\* css::Value.  An f32 length is held as an integer number of half pixels:
\* the arithmetic of the engine on whole-pixel inputs (+, - and / 2.0) is
\* then exact, as it is in f32 for such values.
Keyword(s) == [type |-> "Keyword", s |-> s]
Length(f, unit) == [type |-> "Length", f |-> f, unit |-> unit]
ColorValue(color) == [type |-> "ColorValue", color |-> color]

\* n whole pixels.
px(n) == n + n

\* Value::to_px
to_px(v) == IF v.type = "Length" /\ v.unit = "Px" THEN v.f ELSE 0

Declaration(name, value) == [name |-> name, value |-> value]

Rule(selectors, declarations) ==
  [selectors |-> selectors, declarations |-> declarations]

Stylesheet(rules) == [rules |-> rules]

-----------------------------------------------------------------------------
(* dom.rs: element data                                                    *)

ElementData(tag_name, attributes) ==
  [tag_name |-> tag_name, attributes |-> attributes]

\* ElementData::id: the "id" attribute, if any.
ElementId(elem) ==
  IF "id" \in DOMAIN elem.attributes THEN {elem.attributes["id"]} ELSE {}

\* The space-separated tokens of a string, in order.
RECURSIVE Split(_)
Split(str) ==
  IF \A i \in DOMAIN str : str[i] # " "
  THEN <<str>>
  ELSE LET i == CHOOSE k \in DOMAIN str :
                  str[k] = " " /\ \A j \in 1..(k - 1) : str[j] # " "
       IN  <<SubSeq(str, 1, i - 1)>> \o Split(SubSeq(str, i + 1, Len(str)))

\* ElementData::classes: the set of tokens of the "class" attribute.
ElementClasses(elem) ==
  IF "class" \in DOMAIN elem.attributes
  THEN Range(Split(elem.attributes["class"]))
  ELSE {}

\* dom::Node::text
Text(data) ==
  [children |-> <<>>, node_type |-> [kind |-> "Text", text |-> data]]

\* dom::Node::element
Element(tag_name, attributes, children) ==
  [children |-> children,
   node_type |-> [kind |-> "Element", element |-> ElementData(tag_name, attributes)]]

\* The node of a tree (of nodes with a children field) that a path refers to.
RECURSIVE NodeAt(_, _)
NodeAt(tree, path) ==
  IF path = <<>> THEN tree
  ELSE NodeAt(tree.children[path[1]], SubSeq(path, 2, Len(path)))

\* The paths of all nodes of a tree.
RECURSIVE Paths(_)
Paths(tree) ==
  {<<>>} \cup UNION {{<<i>> \o q : q \in Paths(tree.children[i])} :
                       i \in DOMAIN tree.children}

-----------------------------------------------------------------------------
(* style.rs: selector matching                                             *)

\* A plausible slip: a class matches when it occurs anywhere in the class
\* attribute, not only as a whole token.
matches_simple_selector_M1(elem, sel) ==
  LET attr == IF "class" \in DOMAIN elem.attributes
              THEN elem.attributes["class"] ELSE <<>>
      Occurs(c) == \E i \in 1..(Len(attr) + 1), j \in 0..Len(attr) :
                      SubSeq(attr, i, j) = c
  IN  /\ ~ \E name \in sel.tag_name : elem.tag_name # name
      /\ ~ \E id \in sel.id : ElementId(elem) # {id}
      /\ ~ \E i \in DOMAIN sel.classes : ~ Occurs(sel.classes[i])

matches_simple_selector(elem, sel) ==
  IF \E name \in sel.tag_name : elem.tag_name # name
  THEN FALSE
  ELSE IF \E id \in sel.id : ElementId(elem) # {id}
  THEN FALSE
  ELSE LET element_classes == ElementClasses(elem)
       IN  IF \E i \in DOMAIN sel.classes : sel.classes[i] \notin element_classes
           THEN FALSE
           ELSE TRUE

matches(elem, sel) == matches_simple_selector(elem, sel)

\* Option<MatchedRule>: the first selector of the rule that matches.
match_rule(elem, r) ==
  LET hits == {i \in DOMAIN r.selectors : matches(elem, r.selectors[i])}
  IN  IF hits = {} THEN {}
      ELSE LET i == CHOOSE k \in hits : \A j \in hits : k <= j
           IN  {<<specificity(r.selectors[i]), r>>}

\* Vec<MatchedRule>: filter_map of match_rule over the rules, in order.
matching_rules(elem, sheet) ==
  LET n == Len(sheet.rules)
      F[i \in 0..n] ==
        IF i = 0 THEN <<>>
        ELSE LET m == match_rule(elem, sheet.rules[i])
             IN  IF m = {} THEN F[i - 1]
                 ELSE Append(F[i - 1], CHOOSE x \in m : TRUE)
  IN  F[n]

\* A plausible slip: an unstable sort, here one that puts an element before
\* the elements it compares equal to.
sort_by_M1(v) ==
  LET Insert(sorted, x) ==
        LET k == Cardinality({i \in DOMAIN sorted : cmp(sorted[i][1], x[1]) = "Less"})
        IN  SubSeq(sorted, 1, k) \o <<x>> \o SubSeq(sorted, k + 1, Len(sorted))
      F[i \in 0..Len(v)] == IF i = 0 THEN <<>> ELSE Insert(F[i - 1], v[i])
  IN  F[Len(v)]

\* rules.sort_by(|&(a, _), &(b, _)| a.cmp(&b)): slice::sort_by is a stable
\* sort, so an element goes behind every element that is not greater.
sort_by(v) ==
  LET Insert(sorted, x) ==
        LET k == Cardinality({i \in DOMAIN sorted : cmp(sorted[i][1], x[1]) # "Greater"})
        IN  SubSeq(sorted, 1, k) \o <<x>> \o SubSeq(sorted, k + 1, Len(sorted))
      F[i \in 0..Len(v)] == IF i = 0 THEN <<>> ELSE Insert(F[i - 1], v[i])
  IN  F[Len(v)]

\* hashmap![]
EmptyMap == [k \in {} |-> Unused]

\* HashMap::insert
Insert(map, k, v) == [n \in DOMAIN map \cup {k} |-> IF n = k THEN v ELSE map[n]]

\* A plausible slip: the rules are applied in stylesheet order, unsorted.
specified_values_M1(elem, sheet) ==
  LET rules == matching_rules(elem, sheet)
      Apply(values, declarations) ==
        LET G[k \in 0..Len(declarations)] ==
              IF k = 0 THEN values
              ELSE Insert(G[k - 1], declarations[k].name, declarations[k].value)
        IN  G[Len(declarations)]
      F[i \in 0..Len(rules)] ==
        IF i = 0 THEN EmptyMap ELSE Apply(F[i - 1], rules[i][2].declarations)
  IN  F[Len(rules)]

specified_values(elem, sheet) ==
  LET rules == sort_by(matching_rules(elem, sheet))
      Apply(values, declarations) ==
        LET G[k \in 0..Len(declarations)] ==
              IF k = 0 THEN values
              ELSE Insert(G[k - 1], declarations[k].name, declarations[k].value)
        IN  G[Len(declarations)]
      F[i \in 0..Len(rules)] ==
        IF i = 0 THEN EmptyMap ELSE Apply(F[i - 1], rules[i][2].declarations)
  IN  F[Len(rules)]

\* StyledNode::new; node is the reference to the document node.
StyledNode(n, values, children) ==
  [node |-> n, specified_values |-> values, children |-> children]

\* StyledNode::value: Option<css::Value>
value(style_node, name) ==
  IF name \in DOMAIN style_node.specified_values
  THEN {style_node.specified_values[name]}
  ELSE {}

\* StyledNode::lookup
lookup(style_node, name, fallback_name, default) ==
  IF value(style_node, name) # {}
  THEN CHOOSE v \in value(style_node, name) : TRUE
  ELSE IF value(style_node, fallback_name) # {}
  THEN CHOOSE v \in value(style_node, fallback_name) : TRUE
  ELSE default

\* A plausible slip: an unrecognised display value is treated as block.
display_M1(style_node) ==
  LET v == value(style_node, "display")
  IN  IF v = {} THEN "Inline"
      ELSE IF v = {Keyword("none")} THEN "None"
      ELSE "Block"

\* StyledNode::display
display(style_node) ==
  LET v == value(style_node, "display")
  IN  IF \E x \in v : x.type = "Keyword"
      THEN LET s == (CHOOSE x \in v : TRUE).s
           IN  CASE s = "block" -> "Block"
                 [] s = "none" -> "None"
                 [] OTHER -> "Inline"
      ELSE "Inline"

\* A plausible slip: the children are collected in reverse order.
RECURSIVE style_tree_M1(_, _, _)
style_tree_M1(root, path, sheet) ==
  LET n == NodeAt(root, path)
      len == Len(n.children)
  IN  StyledNode(
        path,
        IF n.node_type.kind = "Element"
        THEN specified_values(n.node_type.element, sheet)
        ELSE EmptyMap,
        [i \in 1..len |-> style_tree_M1(root, path \o <<len + 1 - i>>, sheet)])

\* style_tree applied to the node at path of the document tree root.
RECURSIVE style_tree(_, _, _)
style_tree(root, path, sheet) ==
  LET n == NodeAt(root, path)
  IN  StyledNode(
        path,
        CASE n.node_type.kind = "Element" ->
               specified_values(n.node_type.element, sheet)
          [] n.node_type.kind = "Text" -> EmptyMap,
        [i \in 1..Len(n.children) |-> style_tree(root, path \o <<i>>, sheet)])

-----------------------------------------------------------------------------
(* layout.rs: boxes and the construction of the box tree                   *)

Rectangle(x, y, width, height) == [x |-> x, y |-> y, width |-> width, height |-> height]

EdgeSizes(top, right, bottom, left) ==
  [top |-> top, right |-> right, bottom |-> bottom, left |-> left]

Dimensions(content, padding, border, margin) ==
  [content |-> content, padding |-> padding, border |-> border, margin |-> margin]

\* Default::default() for Dimensions: every field zero.
DefaultDimensions ==
  Dimensions(Rectangle(0, 0, 0, 0), EdgeSizes(0, 0, 0, 0),
             EdgeSizes(0, 0, 0, 0), EdgeSizes(0, 0, 0, 0))

\* BoxType; node is the reference to the styled node.
BlockNode(n) == [type |-> "BlockNode", node |-> n]
InlineNode(n) == [type |-> "InlineNode", node |-> n]
AnonymousBlock == [type |-> "AnonymousBlock", node |-> Unused]

\* LayoutBox::new
LayoutBox(box_type) ==
  [dimensions |-> DefaultDimensions, box_type |-> box_type, children |-> <<>>]

\* children.push on the box itself
Push(box, child) == [box EXCEPT !.children = Append(@, child)]

\* A plausible slip: every box is its own inline container.
get_inline_container_M3(box) == [box |-> box, container |-> <<>>]

\* A plausible slip: only an anonymous block is its own inline container, an
\* inline box gets an anonymous block as a block box does.
get_inline_container_M2(box) ==
  IF box.box_type.type = "AnonymousBlock"
  THEN [box |-> box, container |-> <<>>]
  ELSE LET n == Len(box.children)
           b == IF n > 0 /\ box.children[n].box_type.type = "AnonymousBlock"
                THEN box
                ELSE Push(box, LayoutBox(AnonymousBlock))
       IN  [box |-> b, container |-> <<Len(b.children)>>]

\* A plausible slip: a new anonymous block is made for every inline child.
get_inline_container_M1(box) ==
  IF box.box_type.type \in {"InlineNode", "AnonymousBlock"}
  THEN [box |-> box, container |-> <<>>]
  ELSE LET b == Push(box, LayoutBox(AnonymousBlock))
       IN  [box |-> b, container |-> <<Len(b.children)>>]

\* LayoutBox::get_inline_container: the box after the call and the reference
\* returned, as a path from the box (<<>> is the box itself).
get_inline_container(box) ==
  IF box.box_type.type \in {"InlineNode", "AnonymousBlock"}
  THEN [box |-> box, container |-> <<>>]
  ELSE LET n == Len(box.children)
           b == IF n > 0 /\ box.children[n].box_type.type = "AnonymousBlock"
                THEN box
                ELSE Push(box, LayoutBox(AnonymousBlock))
       IN  [box |-> b, container |-> <<Len(b.children)>>]

\* root.get_inline_container().children.push(child)
PushInline(box, child) ==
  LET g == get_inline_container(box)
  IN  IF g.container = <<>>
      THEN Push(g.box, child)
      ELSE [g.box EXCEPT !.children[g.container[1]] = Push(@, child)]

\* panic!("Root node has display: none.")
Panic == [panic |-> "Root node has display: none."]

\* A plausible slip: a child with display none ends the run of inline
\* children before it, as a block child does, by leaving an empty anonymous
\* block behind.
RECURSIVE build_layout_tree_M2(_, _)
build_layout_tree_M2(styled, path) ==
  LET style_node == NodeAt(styled, path)
      d == display(style_node)
  IN  IF d = "None" THEN Panic
      ELSE
        LET root == LayoutBox(IF d = "Block" THEN BlockNode(path) ELSE InlineNode(path))
            F[i \in 0..Len(style_node.children)] ==
              IF i = 0 THEN root
              ELSE IF F[i - 1] = Panic THEN Panic
              ELSE LET c == display(style_node.children[i])
                       child == build_layout_tree_M2(styled, path \o <<i>>)
                   IN  CASE c = "Block" ->
                              IF child = Panic THEN Panic
                              ELSE Push(F[i - 1], child)
                         [] c = "Inline" ->
                              IF child = Panic THEN Panic
                              ELSE PushInline(F[i - 1], child)
                         [] c = "None" -> Push(F[i - 1], LayoutBox(AnonymousBlock))
        IN  F[Len(style_node.children)]

\* A plausible slip: a child with display none is not skipped but built as
\* a block child is.
RECURSIVE build_layout_tree_M1(_, _)
build_layout_tree_M1(styled, path) ==
  LET style_node == NodeAt(styled, path)
      d == display(style_node)
  IN  IF d = "None" THEN Panic
      ELSE
        LET root == LayoutBox(IF d = "Block" THEN BlockNode(path) ELSE InlineNode(path))
            F[i \in 0..Len(style_node.children)] ==
              IF i = 0 THEN root
              ELSE IF F[i - 1] = Panic THEN Panic
              ELSE LET c == display(style_node.children[i])
                       child == build_layout_tree_M1(styled, path \o <<i>>)
                   IN  CASE c \in {"Block", "None"} ->
                              IF child = Panic THEN Panic
                              ELSE Push(F[i - 1], child)
                         [] c = "Inline" ->
                              IF child = Panic THEN Panic
                              ELSE PushInline(F[i - 1], child)
        IN  F[Len(style_node.children)]

\* build_layout_tree applied to the styled node at path of the styled tree:
\* the box tree, or the panic, which ends every call on the stack.
RECURSIVE build_layout_tree(_, _)
build_layout_tree(styled, path) ==
  LET style_node == NodeAt(styled, path)
      d == display(style_node)
  IN  IF d = "None" THEN Panic
      ELSE
        LET root == LayoutBox(IF d = "Block" THEN BlockNode(path) ELSE InlineNode(path))
            F[i \in 0..Len(style_node.children)] ==
              IF i = 0 THEN root
              ELSE IF F[i - 1] = Panic THEN Panic
              ELSE LET c == display(style_node.children[i])
                       child == build_layout_tree(styled, path \o <<i>>)
                   IN  CASE c = "Block" ->
                              IF child = Panic THEN Panic
                              ELSE Push(F[i - 1], child)
                         [] c = "Inline" ->
                              IF child = Panic THEN Panic
                              ELSE PushInline(F[i - 1], child)
                         [] c = "None" -> F[i - 1]
        IN  F[Len(style_node.children)]

-----------------------------------------------------------------------------
(* layout.rs: the block formatting algorithm                               *)

\* panic!("Anonymous block box has no style node")
AnonymousPanic == [panic |-> "Anonymous block box has no style node"]

\* A plausible slip: an anonymous block is given an empty styled node
\* instead of the panic.
get_style_node_M1(styled, box) ==
  IF box.box_type.type \in {"BlockNode", "InlineNode"}
  THEN NodeAt(styled, box.box_type.node)
  ELSE StyledNode(<<>>, EmptyMap, <<>>)

\* LayoutBox::get_style_node
get_style_node(styled, box) ==
  IF box.box_type.type \in {"BlockNode", "InlineNode"}
  THEN NodeAt(styled, box.box_type.node)
  ELSE AnonymousPanic

\* sum: fold of + from 0 over the values
sum(v) ==
  LET F[i \in 0..Len(v)] == IF i = 0 THEN 0 ELSE F[i - 1] + v[i]
  IN  F[Len(v)]

\* underflow / 2.0, exact on half pixels since underflow is a whole number
\* of pixels
Half(x) == x \div 2

\* A plausible slip: with width auto and a negative underflow the width is
\* set to 0 but margin-right is left as it was.
resolve_underflow_M1(width, margin_left, margin_right, underflow) ==
  LET auto == Keyword("auto")
      w_auto == width = auto
      l_auto == margin_left = auto
      r_auto == margin_right = auto
  IN  CASE ~w_auto /\ ~l_auto /\ ~r_auto ->
             [width |-> width, margin_left |-> margin_left,
              margin_right |-> Length(to_px(margin_right) + underflow, "Px")]
        [] ~w_auto /\ ~l_auto /\ r_auto ->
             [width |-> width, margin_left |-> margin_left,
              margin_right |-> Length(underflow, "Px")]
        [] ~w_auto /\ l_auto /\ ~r_auto ->
             [width |-> width, margin_left |-> Length(underflow, "Px"),
              margin_right |-> margin_right]
        [] w_auto ->
             LET ml == IF l_auto THEN Length(0, "Px") ELSE margin_left
                 mr == IF r_auto THEN Length(0, "Px") ELSE margin_right
             IN  IF underflow >= 0
                 THEN [width |-> Length(underflow, "Px"),
                       margin_left |-> ml, margin_right |-> mr]
                 ELSE [width |-> Length(0, "Px"), margin_left |-> ml,
                       margin_right |-> mr]
        [] ~w_auto /\ l_auto /\ r_auto ->
             [width |-> width,
              margin_left |-> Length(Half(underflow), "Px"),
              margin_right |-> Length(Half(underflow), "Px")]

\* A plausible slip: the overconstrained arm sets margin-right to the
\* underflow, as the one-auto arm does, dropping the declared margin-right.
resolve_underflow_M2(width, margin_left, margin_right, underflow) ==
  LET auto == Keyword("auto")
      w_auto == width = auto
      l_auto == margin_left = auto
      r_auto == margin_right = auto
  IN  CASE ~w_auto /\ ~l_auto ->
             [width |-> width, margin_left |-> margin_left,
              margin_right |-> Length(underflow, "Px")]
        [] ~w_auto /\ l_auto /\ ~r_auto ->
             [width |-> width, margin_left |-> Length(underflow, "Px"),
              margin_right |-> margin_right]
        [] w_auto ->
             LET ml == IF l_auto THEN Length(0, "Px") ELSE margin_left
                 mr == IF r_auto THEN Length(0, "Px") ELSE margin_right
             IN  IF underflow >= 0
                 THEN [width |-> Length(underflow, "Px"),
                       margin_left |-> ml, margin_right |-> mr]
                 ELSE [width |-> Length(0, "Px"), margin_left |-> ml,
                       margin_right |-> Length(to_px(mr) + underflow, "Px")]
        [] ~w_auto /\ l_auto /\ r_auto ->
             [width |-> width,
              margin_left |-> Length(Half(underflow), "Px"),
              margin_right |-> Length(Half(underflow), "Px")]

\* A plausible slip: with width auto the width is always the underflow,
\* negative or not.
resolve_underflow_M3(width, margin_left, margin_right, underflow) ==
  LET auto == Keyword("auto")
      w_auto == width = auto
      l_auto == margin_left = auto
      r_auto == margin_right = auto
  IN  CASE ~w_auto /\ ~l_auto /\ ~r_auto ->
             [width |-> width, margin_left |-> margin_left,
              margin_right |-> Length(to_px(margin_right) + underflow, "Px")]
        [] ~w_auto /\ ~l_auto /\ r_auto ->
             [width |-> width, margin_left |-> margin_left,
              margin_right |-> Length(underflow, "Px")]
        [] ~w_auto /\ l_auto /\ ~r_auto ->
             [width |-> width, margin_left |-> Length(underflow, "Px"),
              margin_right |-> margin_right]
        [] w_auto ->
             LET ml == IF l_auto THEN Length(0, "Px") ELSE margin_left
                 mr == IF r_auto THEN Length(0, "Px") ELSE margin_right
             IN  IF underflow >= 0
                 THEN [width |-> Length(underflow, "Px"),
                       margin_left |-> ml, margin_right |-> mr]
                 ELSE [width |-> Length(underflow, "Px"),
                       margin_left |-> ml, margin_right |-> mr]
        [] ~w_auto /\ l_auto /\ r_auto ->
             [width |-> width,
              margin_left |-> Length(Half(underflow), "Px"),
              margin_right |-> Length(Half(underflow), "Px")]

\* A plausible slip: with both margins auto the whole underflow goes to
\* margin-left.
resolve_underflow_M4(width, margin_left, margin_right, underflow) ==
  LET auto == Keyword("auto")
      w_auto == width = auto
      l_auto == margin_left = auto
      r_auto == margin_right = auto
  IN  CASE ~w_auto /\ ~l_auto /\ ~r_auto ->
             [width |-> width, margin_left |-> margin_left,
              margin_right |-> Length(to_px(margin_right) + underflow, "Px")]
        [] ~w_auto /\ ~l_auto /\ r_auto ->
             [width |-> width, margin_left |-> margin_left,
              margin_right |-> Length(underflow, "Px")]
        [] ~w_auto /\ l_auto /\ ~r_auto ->
             [width |-> width, margin_left |-> Length(underflow, "Px"),
              margin_right |-> margin_right]
        [] w_auto ->
             LET ml == IF l_auto THEN Length(0, "Px") ELSE margin_left
                 mr == IF r_auto THEN Length(0, "Px") ELSE margin_right
             IN  IF underflow >= 0
                 THEN [width |-> Length(underflow, "Px"),
                       margin_left |-> ml, margin_right |-> mr]
                 ELSE [width |-> Length(0, "Px"), margin_left |-> ml,
                       margin_right |-> Length(to_px(mr) + underflow, "Px")]
        [] ~w_auto /\ l_auto /\ r_auto ->
             [width |-> width,
              margin_left |-> Length(underflow, "Px"),
              margin_right |-> Length(0, "Px")]

\* The match on (width == auto, margin_left == auto, margin_right == auto)
\* of calculate_block_width: the used width and margins.
resolve_underflow(width, margin_left, margin_right, underflow) ==
  LET auto == Keyword("auto")
      w_auto == width = auto
      l_auto == margin_left = auto
      r_auto == margin_right = auto
  IN  CASE ~w_auto /\ ~l_auto /\ ~r_auto ->
             [width |-> width, margin_left |-> margin_left,
              margin_right |-> Length(to_px(margin_right) + underflow, "Px")]
        [] ~w_auto /\ ~l_auto /\ r_auto ->
             [width |-> width, margin_left |-> margin_left,
              margin_right |-> Length(underflow, "Px")]
        [] ~w_auto /\ l_auto /\ ~r_auto ->
             [width |-> width, margin_left |-> Length(underflow, "Px"),
              margin_right |-> margin_right]
        [] w_auto ->
             LET ml == IF l_auto THEN Length(0, "Px") ELSE margin_left
                 mr == IF r_auto THEN Length(0, "Px") ELSE margin_right
             IN  IF underflow >= 0
                 THEN [width |-> Length(underflow, "Px"),
                       margin_left |-> ml, margin_right |-> mr]
                 ELSE [width |-> Length(0, "Px"), margin_left |-> ml,
                       margin_right |-> Length(to_px(mr) + underflow, "Px")]
        [] ~w_auto /\ l_auto /\ r_auto ->
             [width |-> width,
              margin_left |-> Length(Half(underflow), "Px"),
              margin_right |-> Length(Half(underflow), "Px")]

\* A plausible slip: the over-constraint clamp is left out, auto margins
\* reach the match as they were declared.
calculate_block_width_M1(styled, box, containing) ==
  LET style == get_style_node(styled, box)
  IN  IF style = AnonymousPanic THEN AnonymousPanic
      ELSE
        LET auto == Keyword("auto")
            width0 == IF value(style, "width") # {}
                      THEN CHOOSE v \in value(style, "width") : TRUE
                      ELSE auto
            zero == Length(0, "Px")
            margin_left0 == lookup(style, "margin-left", "margin", zero)
            margin_right0 == lookup(style, "margin-right", "margin", zero)
            border_left == lookup(style, "border-left-width", "border-width", zero)
            border_right == lookup(style, "border-right-width", "border-width", zero)
            padding_left == lookup(style, "padding-left", "padding", zero)
            padding_right == lookup(style, "padding-right", "padding", zero)
            total == sum(<<to_px(margin_left0), to_px(margin_right0),
                           to_px(border_left), to_px(border_right),
                           to_px(padding_left), to_px(padding_right),
                           to_px(width0)>>)
            \* treat auto margins as 0 when the box is wider than the container
            clamp == FALSE
            margin_left1 == IF clamp /\ margin_left0 = auto THEN Length(0, "Px")
                            ELSE margin_left0
            margin_right1 == IF clamp /\ margin_right0 = auto THEN Length(0, "Px")
                             ELSE margin_right0
            underflow == containing.content.width - total
            used == resolve_underflow(width0, margin_left1, margin_right1, underflow)
        IN  [box EXCEPT
               !.dimensions.content.width = to_px(used.width),
               !.dimensions.padding.left = to_px(padding_left),
               !.dimensions.padding.right = to_px(padding_right),
               !.dimensions.border.left = to_px(border_left),
               !.dimensions.border.right = to_px(border_right),
               !.dimensions.margin.left = to_px(used.margin_left),
               !.dimensions.margin.right = to_px(used.margin_right)]

\* LayoutBox::calculate_block_width: the box after the call.
calculate_block_width(styled, box, containing) ==
  LET style == get_style_node(styled, box)
  IN  IF style = AnonymousPanic THEN AnonymousPanic
      ELSE
        LET auto == Keyword("auto")
            width0 == IF value(style, "width") # {}
                      THEN CHOOSE v \in value(style, "width") : TRUE
                      ELSE auto
            zero == Length(0, "Px")
            margin_left0 == lookup(style, "margin-left", "margin", zero)
            margin_right0 == lookup(style, "margin-right", "margin", zero)
            border_left == lookup(style, "border-left-width", "border-width", zero)
            border_right == lookup(style, "border-right-width", "border-width", zero)
            padding_left == lookup(style, "padding-left", "padding", zero)
            padding_right == lookup(style, "padding-right", "padding", zero)
            total == sum(<<to_px(margin_left0), to_px(margin_right0),
                           to_px(border_left), to_px(border_right),
                           to_px(padding_left), to_px(padding_right),
                           to_px(width0)>>)
            \* treat auto margins as 0 when the box is wider than the container
            clamp == width0 # auto /\ total > containing.content.width
            margin_left1 == IF clamp /\ margin_left0 = auto THEN Length(0, "Px")
                            ELSE margin_left0
            margin_right1 == IF clamp /\ margin_right0 = auto THEN Length(0, "Px")
                             ELSE margin_right0
            underflow == containing.content.width - total
            used == resolve_underflow(width0, margin_left1, margin_right1, underflow)
        IN  [box EXCEPT
               !.dimensions.content.width = to_px(used.width),
               !.dimensions.padding.left = to_px(padding_left),
               !.dimensions.padding.right = to_px(padding_right),
               !.dimensions.border.left = to_px(border_left),
               !.dimensions.border.right = to_px(border_right),
               !.dimensions.margin.left = to_px(used.margin_left),
               !.dimensions.margin.right = to_px(used.margin_right)]

\* A plausible slip: the width grows by the left edge twice.
expanded_by_M1(rect, edge) ==
  Rectangle(rect.x - edge.left, rect.y - edge.top,
            rect.width + edge.left + edge.left,
            rect.height + edge.top + edge.bottom)

\* Rectangle::expanded_by
expanded_by(rect, edge) ==
  Rectangle(rect.x - edge.left, rect.y - edge.top,
            rect.width + edge.left + edge.right,
            rect.height + edge.top + edge.bottom)

\* Dimensions::padding_box, border_box, margin_box
padding_box(d) == expanded_by(d.content, d.padding)
border_box(d) == expanded_by(padding_box(d), d.border)
margin_box(d) == expanded_by(border_box(d), d.margin)

\* A plausible slip: content.x leaves out the box's own padding-left.
calculate_block_position_M1(styled, box, containing) ==
  LET style == get_style_node(styled, box)
  IN  IF style = AnonymousPanic THEN AnonymousPanic
      ELSE
        LET zero == Length(0, "Px")
            d == box.dimensions
            margin_top == to_px(lookup(style, "margin-top", "margin", zero))
            border_top == to_px(lookup(style, "border-top-width", "border-width", zero))
            padding_top == to_px(lookup(style, "padding-top", "padding", zero))
        IN  [box EXCEPT
               !.dimensions.margin.top = margin_top,
               !.dimensions.margin.bottom =
                  to_px(lookup(style, "margin-bottom", "margin", zero)),
               !.dimensions.border.top = border_top,
               !.dimensions.border.bottom =
                  to_px(lookup(style, "border-bottom-width", "border-width", zero)),
               !.dimensions.padding.top = padding_top,
               !.dimensions.padding.bottom =
                  to_px(lookup(style, "padding-bottom", "padding", zero)),
               !.dimensions.content.x =
                  containing.content.x + d.margin.left + d.border.left,
               !.dimensions.content.y =
                  containing.content.height + containing.content.y
                    + margin_top + border_top + padding_top]

\* A plausible slip: content.y leaves out the height the containing block
\* has reached, so every child starts at the top of its container.
calculate_block_position_M2(styled, box, containing) ==
  LET style == get_style_node(styled, box)
  IN  IF style = AnonymousPanic THEN AnonymousPanic
      ELSE
        LET zero == Length(0, "Px")
            d == box.dimensions
            margin_top == to_px(lookup(style, "margin-top", "margin", zero))
            border_top == to_px(lookup(style, "border-top-width", "border-width", zero))
            padding_top == to_px(lookup(style, "padding-top", "padding", zero))
        IN  [box EXCEPT
               !.dimensions.margin.top = margin_top,
               !.dimensions.margin.bottom =
                  to_px(lookup(style, "margin-bottom", "margin", zero)),
               !.dimensions.border.top = border_top,
               !.dimensions.border.bottom =
                  to_px(lookup(style, "border-bottom-width", "border-width", zero)),
               !.dimensions.padding.top = padding_top,
               !.dimensions.padding.bottom =
                  to_px(lookup(style, "padding-bottom", "padding", zero)),
               !.dimensions.content.x =
                  containing.content.x + d.margin.left + d.border.left
                    + d.padding.left,
               !.dimensions.content.y =
                  containing.content.y + margin_top + border_top + padding_top]

\* LayoutBox::calculate_block_position: the box after the call.  The
\* horizontal edges read are the ones calculate_block_width has written.
calculate_block_position(styled, box, containing) ==
  LET style == get_style_node(styled, box)
  IN  IF style = AnonymousPanic THEN AnonymousPanic
      ELSE
        LET zero == Length(0, "Px")
            d == box.dimensions
            margin_top == to_px(lookup(style, "margin-top", "margin", zero))
            border_top == to_px(lookup(style, "border-top-width", "border-width", zero))
            padding_top == to_px(lookup(style, "padding-top", "padding", zero))
        IN  [box EXCEPT
               !.dimensions.margin.top = margin_top,
               !.dimensions.margin.bottom =
                  to_px(lookup(style, "margin-bottom", "margin", zero)),
               !.dimensions.border.top = border_top,
               !.dimensions.border.bottom =
                  to_px(lookup(style, "border-bottom-width", "border-width", zero)),
               !.dimensions.padding.top = padding_top,
               !.dimensions.padding.bottom =
                  to_px(lookup(style, "padding-bottom", "padding", zero)),
               !.dimensions.content.x =
                  containing.content.x + d.margin.left + d.border.left
                    + d.padding.left,
               !.dimensions.content.y =
                  containing.content.height + containing.content.y
                    + margin_top + border_top + padding_top]

\* A plausible slip: any declared height is used, a non-length as 0.
calculate_block_height_M1(styled, box) ==
  LET style == get_style_node(styled, box)
  IN  IF style = AnonymousPanic THEN AnonymousPanic
      ELSE LET h == value(style, "height")
           IN  IF h # {}
               THEN [box EXCEPT !.dimensions.content.height =
                                   to_px(CHOOSE v \in h : TRUE)]
               ELSE box

\* LayoutBox::calculate_block_height: the box after the call.
calculate_block_height(styled, box) ==
  LET style == get_style_node(styled, box)
  IN  IF style = AnonymousPanic THEN AnonymousPanic
      ELSE LET h == value(style, "height")
           IN  IF \E v \in h : v.type = "Length" /\ v.unit = "Px"
               THEN [box EXCEPT !.dimensions.content.height =
                                   (CHOOSE v \in h : TRUE).f]
               ELSE box

RECURSIVE layout(_, _, _), layout_block(_, _, _), layout_block_children(_, _)

\* A plausible slip: every box is laid out as a block, whatever its type.
layout_M2(styled, box, containing) == layout_block(styled, box, containing)

\* A plausible slip: inline boxes are laid out as blocks are.
layout_M1(styled, box, containing) ==
  IF box.box_type.type \in {"BlockNode", "InlineNode"}
  THEN layout_block(styled, box, containing)
  ELSE box

\* LayoutBox::layout: the box after the call.
layout(styled, box, containing) ==
  IF box.box_type.type = "BlockNode"
  THEN layout_block(styled, box, containing)
  ELSE box

\* A plausible slip: the loop starts from a content height of 0 instead of
\* the height the box has.
layout_block_children_M1(styled, box) ==
  LET F[i \in 0..Len(box.children)] ==
        IF i = 0 THEN [box EXCEPT !.dimensions.content.height = 0]
        ELSE LET b == F[i - 1]
             IN  IF b = AnonymousPanic THEN AnonymousPanic
                 ELSE LET child == layout(styled, b.children[i], b.dimensions)
                      IN  IF child = AnonymousPanic THEN AnonymousPanic
                          ELSE [b EXCEPT
                                  !.children[i] = child,
                                  !.dimensions.content.height =
                                     @ + margin_box(child.dimensions).height]
  IN  F[Len(box.children)]

\* LayoutBox::layout_block_children: the box after the loop; each child is
\* laid out against the dimensions the box has when its turn comes.  A panic
\* in a child ends the whole call.
layout_block_children(styled, box) ==
  LET F[i \in 0..Len(box.children)] ==
        IF i = 0 THEN box
        ELSE LET b == F[i - 1]
             IN  IF b = AnonymousPanic THEN AnonymousPanic
                 ELSE LET child == layout(styled, b.children[i], b.dimensions)
                      IN  IF child = AnonymousPanic THEN AnonymousPanic
                          ELSE [b EXCEPT
                                  !.children[i] = child,
                                  !.dimensions.content.height =
                                     @ + margin_box(child.dimensions).height]
  IN  F[Len(box.children)]

\* LayoutBox::layout_block: the box after the call, or the panic of the
\* first step that asks an anonymous block for its styled node.
layout_block(styled, box, containing) ==
  LET w == calculate_block_width(styled, box, containing)
  IN  IF w = AnonymousPanic THEN AnonymousPanic
      ELSE
        LET p == calculate_block_position(styled, w, containing)
        IN  IF p = AnonymousPanic THEN AnonymousPanic
            ELSE
              LET c == layout_block_children(styled, p)
              IN  IF c = AnonymousPanic THEN AnonymousPanic
                  ELSE calculate_block_height(styled, c)

\* A plausible slip: the initial containing block is used as it is given.
layout_tree_M1(styled, containing) ==
  LET root_box == build_layout_tree(styled, <<>>)
  IN  IF root_box = Panic THEN Panic
      ELSE layout(styled, root_box, containing)

\* layout_tree: the laid out box tree of the styled tree, or the panic of
\* build_layout_tree.
layout_tree(styled, containing) ==
  LET initial == [containing EXCEPT !.content.height = 0]
      root_box == build_layout_tree(styled, <<>>)
  IN  IF root_box = Panic THEN Panic
      ELSE layout(styled, root_box, initial)

-----------------------------------------------------------------------------
(* Inputs of the selector-matching specification                           *)

ClassChars == {"a", "b", " "}
ClassAttrs == SeqsOf(ClassChars, 0, MaxClassAttrLen)
ClassNames == {<<"a">>, <<"b">>, <<"a", "b">>}

AttributeMaps ==
  {[k \in {} |-> ""]}
    \cup {[k \in {"id"} |-> "x"]}
    \cup {[k \in {"class"} |-> c] : c \in ClassAttrs}
    \cup {[k \in {"id", "class"} |-> IF k = "id" THEN "x" ELSE c] : c \in ClassAttrs}

Elements == {ElementData("div", a) : a \in AttributeMaps}

Selectors ==
  {SimpleSelector(t, i, c) :
     t \in {{}, {"div"}, {"p"}},
     i \in {{}, {"x"}, {"y"}},
     c \in SeqsOf(ClassNames, 0, MaxClasses)}

-----------------------------------------------------------------------------
(* SpecMatch: matches and specificity on one element and one selector      *)

InitMatch ==
  /\ pc = "start"
  /\ css_parser = Unused
  /\ canvas = Unused
  /\ item = Unused
  /\ element \in Elements
  /\ selector \in Selectors
  /\ rule = Unused
  /\ stylesheet = Unused
  /\ root_node = Unused
  /\ style_root = Unused
  /\ node = Unused
  /\ layout_box = Unused
  /\ containing_block = Unused
  /\ ret = Unused

Matches ==
  /\ pc = "start"
  /\ ret' = matches(element, selector)
  /\ pc' = "matches"
  /\ UNCHANGED <<args, canvas, style_root, node, layout_box>>

Specificity ==
  /\ pc = "start"
  /\ ret' = specificity(selector)
  /\ pc' = "specificity"
  /\ UNCHANGED <<args, canvas, style_root, node, layout_box>>

NextMatch == Matches \/ Specificity

SpecMatch == InitMatch /\ [][NextMatch]_vars

\* c is one of the space-separated tokens of the string attr: a maximal
\* space-free substring delimited by the ends of attr or by spaces.
IsToken(c, attr) ==
  /\ \A k \in DOMAIN c : c[k] # " "
  /\ \E i \in 1..(Len(attr) + 1) :
       LET j == i + Len(c) - 1
       IN  /\ j <= Len(attr)
           /\ SubSeq(attr, i, j) = c
           /\ (i = 1 \/ attr[i - 1] = " ")
           /\ (j = Len(attr) \/ attr[j + 1] = " ")

TagAgrees == selector.tag_name = {} \/ selector.tag_name = {element.tag_name}

IdAgrees ==
  \/ selector.id = {}
  \/ /\ "id" \in DOMAIN element.attributes
     /\ selector.id = {element.attributes["id"]}

ClassesAgree ==
  \A k \in DOMAIN selector.classes :
     /\ "class" \in DOMAIN element.attributes
     /\ IsToken(selector.classes[k], element.attributes["class"])

\* C3: matches(element, selector) is true exactly when the selector's tag
\* name is absent or equal to the element's, its id is absent or equal to
\* the element's id attribute (which must then exist), and each of its
\* classes is a space-separated token of the element's class attribute; a
\* selector without tag, id and classes matches every element.
C3_MatchesIffAllAgree ==
  pc = "matches" =>
    /\ ret <=> (TagAgrees /\ IdAgrees /\ ClassesAgree)
    /\ (selector.tag_name = {} /\ selector.id = {} /\ selector.classes = <<>>)
         => ret

\* A selector with a tag, an id and two classes has matched, and the
\* class attribute holds more than the selector's classes.
C3_Witness ==
  /\ pc = "matches"
  /\ ret = TRUE
  /\ selector.tag_name # {} /\ selector.id # {} /\ Len(selector.classes) = 2
  /\ selector.classes[1] # selector.classes[2]

\* Positional weight of a specificity in a base larger than every component.
Weight(s) ==
  LET base == MaxClasses + 2 IN s[1] * base * base + s[2] * base + s[3]

\* The specificities selectors of the input set can have: (id, classes, tag).
SpecificityValues == (0..1) \X (0..MaxClasses) \X (0..1)

\* C4: specificity() is (1 if id else 0, number of classes, 1 if tag else
\* 0); specificities compare lexicographically, id first: a selector with an
\* id outranks every selector without one, (1,0,0) > (0,2,0) > (0,0,1), and
\* a selector with tag, id and one class has (1,1,1).
C4_SpecificityTriple ==
  pc = "specificity" =>
    /\ ret = << IF selector.id # {} THEN 1 ELSE 0,
                Len(selector.classes),
                IF selector.tag_name # {} THEN 1 ELSE 0 >>
    /\ \A so \in SpecificityValues :
         /\ (selector.id # {} /\ so[1] = 0) => cmp(ret, so) = "Greater"
         /\ cmp(ret, so) = "Greater" <=> Weight(ret) > Weight(so)
         /\ cmp(ret, so) = "Less" <=> Weight(ret) < Weight(so)
         /\ cmp(ret, so) = "Equal" <=> ret = so
    /\ (selector = SimpleSelector({}, {"x"}, <<>>)) =>
         /\ ret = <<1, 0, 0>>
         /\ cmp(ret, specificity(SimpleSelector({}, {}, <<<<"a">>, <<"b">>>>))) = "Greater"
    /\ (selector = SimpleSelector({}, {}, <<<<"a">>, <<"b">>>>)) =>
         /\ ret = <<0, 2, 0>>
         /\ cmp(ret, specificity(SimpleSelector({"div"}, {}, <<>>))) = "Greater"
    /\ (selector = SimpleSelector({"div"}, {}, <<>>)) => ret = <<0, 0, 1>>
    /\ (selector = SimpleSelector({"div"}, {"x"}, <<<<"a">>>>)) => ret = <<1, 1, 1>>

\* The specificity of "#x" has been computed: it has one id, no class
\* and no tag, and must outrank ".a.b".
C4_Witness ==
  /\ pc = "specificity"
  /\ selector = SimpleSelector({}, {"x"}, <<>>)
  /\ ret = <<1, 0, 0>>

-----------------------------------------------------------------------------
(* SpecRule: match_rule on one element and one rule built by Rule::new,    *)
(* which stores the selector list it is given as it is.                    *)

RuleElements ==
  { ElementData("div", [k \in {} |-> ""]),
    ElementData("div", [k \in {"class"} |-> <<"a">>]),
    ElementData("div", [k \in {"id", "class"} |->
                          IF k = "id" THEN "x" ELSE <<"a", " ", "b">>]) }

RuleSelectors ==
  { SimpleSelector({}, {}, <<>>),
    SimpleSelector({"div"}, {}, <<>>),
    SimpleSelector({"p"}, {}, <<>>),
    SimpleSelector({}, {}, <<<<"a">>>>),
    SimpleSelector({}, {}, <<<<"a">>, <<"b">>>>),
    SimpleSelector({}, {"x"}, <<>>) }

RuleDeclarations ==
  { <<>>, <<Declaration("width", Length(px(100), "Px"))>> }

InitRule ==
  /\ pc = "start"
  /\ css_parser = Unused
  /\ canvas = Unused
  /\ item = Unused
  /\ element \in RuleElements
  /\ selector = Unused
  /\ rule \in {Rule(s, d) : s \in SeqsOf(RuleSelectors, 0, MaxSelectors),
                            d \in RuleDeclarations}
  /\ stylesheet = Unused
  /\ root_node = Unused
  /\ style_root = Unused
  /\ node = Unused
  /\ layout_box = Unused
  /\ containing_block = Unused
  /\ ret = Unused

MatchRule ==
  /\ pc = "start"
  /\ ret' = match_rule(element, rule)
  /\ pc' = "match_rule"
  /\ UNCHANGED <<args, canvas, style_root, node, layout_box>>

NextRule == MatchRule

SpecRule == InitRule /\ [][NextRule]_vars

\* C5: match_rule returns a result exactly when some selector of the rule
\* matches the element, and the specificity returned is the highest one
\* among the rule's matching selectors, for every Rule value.
C5_MatchRuleHighest ==
  pc = "match_rule" =>
    LET hits == {i \in DOMAIN rule.selectors : matches(element, rule.selectors[i])}
    IN  /\ ret # {} <=> hits # {}
        /\ \A m \in ret :
             /\ m[2] = rule
             /\ \E i \in hits : m[1] = specificity(rule.selectors[i])
             /\ \A j \in hits : cmp(specificity(rule.selectors[j]), m[1]) # "Greater"

-----------------------------------------------------------------------------
(* SpecCascade: matching_rules and specified_values on one element and a   *)
(* stylesheet of up to MaxRules rules                                      *)

CascadeElements ==
  { ElementData("div", [k \in {"class"} |-> <<"a">>]),
    ElementData("div", [k \in {"id", "class"} |->
                          IF k = "id" THEN "x" ELSE <<"a", " ", "b">>]) }

CascadeSelectorLists ==
  { <<SimpleSelector({}, {}, <<<<"a">>>>)>>,
    <<SimpleSelector({}, {"x"}, <<>>)>>,
    <<SimpleSelector({"p"}, {}, <<>>)>>,
    <<SimpleSelector({"div"}, {}, <<>>), SimpleSelector({}, {"x"}, <<>>)>> }

CascadeDeclarationLists ==
  { <<Declaration("width", Length(px(50), "Px")),
      Declaration("height", Length(px(50), "Px"))>>,
    <<Declaration("height", Length(px(50), "Px")),
      Declaration("width", Length(px(100), "Px"))>>,
    <<Declaration("width", Length(px(50), "Px")),
      Declaration("width", Keyword("auto"))>>,
    <<Declaration("height", Length(px(100), "Px"))>> }

CascadeRules ==
  {Rule(sl, dl) : sl \in CascadeSelectorLists, dl \in CascadeDeclarationLists}

InitCascade ==
  /\ pc = "start"
  /\ css_parser = Unused
  /\ canvas = Unused
  /\ item = Unused
  /\ element \in CascadeElements
  /\ selector = Unused
  /\ rule = Unused
  /\ stylesheet \in {Stylesheet(rs) : rs \in SeqsOf(CascadeRules, 0, MaxRules)}
  /\ root_node = Unused
  /\ style_root = Unused
  /\ node = Unused
  /\ layout_box = Unused
  /\ containing_block = Unused
  /\ ret = Unused

MatchingRules ==
  /\ pc = "start"
  /\ ret' = matching_rules(element, stylesheet)
  /\ pc' = "matching_rules"
  /\ UNCHANGED <<args, canvas, style_root, node, layout_box>>

SpecifiedValues ==
  /\ pc = "start"
  /\ ret' = specified_values(element, stylesheet)
  /\ pc' = "specified_values"
  /\ UNCHANGED <<args, canvas, style_root, node, layout_box>>

NextCascade == MatchingRules \/ SpecifiedValues

SpecCascade == InitCascade /\ [][NextCascade]_vars

\* The rules of the stylesheet that match the element, by position.
Matching ==
  {i \in DOMAIN stylesheet.rules : match_rule(element, stylesheet.rules[i]) # {}}

\* The specificity with which rule i matches the element.
MatchedSpecificity(i) ==
  (CHOOSE m \in match_rule(element, stylesheet.rules[i]) : TRUE)[1]

Declares(i, name) ==
  \E k \in DOMAIN stylesheet.rules[i].declarations :
     stylesheet.rules[i].declarations[k].name = name

\* The value rule i gives to name: that of its last declaration of name.
DeclaredValue(i, name) ==
  LET ds == stylesheet.rules[i].declarations
      k == CHOOSE k \in DOMAIN ds :
             /\ ds[k].name = name
             /\ \A l \in DOMAIN ds : ds[l].name = name => l <= k
  IN  ds[k].value

PropertyNames == {"width", "height"}

\* C1: when two matching rules declare the same name, one matching with
\* strictly greater specificity, and no other matching rule declares it,
\* specified_values holds the higher-specificity rule's value for the name,
\* whichever rule is first in the stylesheet and wherever the declaration
\* sits in its rule.
C1_HigherSpecificityWins ==
  pc = "specified_values" =>
    \A i \in Matching, j \in Matching, name \in PropertyNames :
       ( /\ Declares(i, name) /\ Declares(j, name)
         /\ cmp(MatchedSpecificity(i), MatchedSpecificity(j)) = "Less"
         /\ \A k \in Matching \ {i, j} : ~ Declares(k, name) )
       => /\ name \in DOMAIN ret
          /\ ret[name] = DeclaredValue(j, name)

\* The higher-specificity rule comes first in the stylesheet, declares width
\* before another property, and its value differs from the other rule's.
C1_Witness ==
  /\ pc = "specified_values"
  /\ \E i \in Matching, j \in Matching :
       /\ j < i
       /\ Declares(i, "width") /\ Declares(j, "width")
       /\ cmp(MatchedSpecificity(i), MatchedSpecificity(j)) = "Less"
       /\ \A k \in Matching \ {i, j} : ~ Declares(k, "width")
       /\ stylesheet.rules[j].declarations[1].name = "width"
       /\ Len(stylesheet.rules[j].declarations) > 1
       /\ DeclaredValue(i, "width") # DeclaredValue(j, "width")
       /\ ret["width"] = DeclaredValue(j, "width")

\* C2 as stated: when two rules match with equal specificity and declare
\* the same name with different values, specified_values holds the value of
\* the rule later in the stylesheet.
C2_LaterRuleWins ==
  pc = "specified_values" =>
    \A i \in Matching, j \in Matching, name \in PropertyNames :
       ( /\ i < j
         /\ Declares(i, name) /\ Declares(j, name)
         /\ MatchedSpecificity(i) = MatchedSpecificity(j)
         /\ DeclaredValue(i, name) # DeclaredValue(j, name) )
       => /\ name \in DOMAIN ret
          /\ ret[name] = DeclaredValue(j, name)

\* Rule k is applied after rule j by the cascade.
CascadesAfter(k, j) ==
  \/ cmp(MatchedSpecificity(k), MatchedSpecificity(j)) = "Greater"
  \/ MatchedSpecificity(k) = MatchedSpecificity(j) /\ k > j

\* C2 (amended): the later of two equal-specificity rules wins unless a
\* matching rule that cascades after it (higher specificity, or equal
\* specificity and later still) also declares the name; matching_rules
\* returns exactly the matching rules, in stylesheet order.
C2_LaterRuleWinsUnlessOverridden ==
  /\ pc = "specified_values" =>
       \A i \in Matching, j \in Matching, name \in PropertyNames :
          ( /\ i < j
            /\ Declares(i, name) /\ Declares(j, name)
            /\ MatchedSpecificity(i) = MatchedSpecificity(j)
            /\ DeclaredValue(i, name) # DeclaredValue(j, name)
            /\ \A k \in Matching : CascadesAfter(k, j) => ~ Declares(k, name) )
          => /\ name \in DOMAIN ret
             /\ ret[name] = DeclaredValue(j, name)
  /\ pc = "matching_rules" =>
       /\ Len(ret) = Cardinality(Matching)
       /\ \A n \in DOMAIN ret :
            \E i \in Matching :
               /\ Cardinality({h \in Matching : h <= i}) = n
               /\ ret[n] = <<MatchedSpecificity(i), stylesheet.rules[i]>>

\* Two rules of equal specificity disagree on width, a lower-specificity
\* rule declaring width sits between them, and the later one has won.
C2_Witness ==
  /\ pc = "specified_values"
  /\ \E i \in Matching, j \in Matching, l \in Matching :
       /\ i < l /\ l < j
       /\ Declares(i, "width") /\ Declares(j, "width") /\ Declares(l, "width")
       /\ MatchedSpecificity(i) = MatchedSpecificity(j)
       /\ cmp(MatchedSpecificity(l), MatchedSpecificity(j)) = "Less"
       /\ DeclaredValue(i, "width") # DeclaredValue(j, "width")
       /\ ret["width"] = DeclaredValue(j, "width")

-----------------------------------------------------------------------------
(* SpecTree: style_tree on a document tree of up to MaxNodes nodes, then   *)
(* display on a styled node and build_layout_tree on the styled tree       *)

TreeElements ==
  { ElementData("div", [k \in {} |-> ""]),
    ElementData("p", [k \in {} |-> ""]) }

\* The document trees with exactly n nodes, and the sequences of document
\* trees with n nodes in all.  Text nodes are leaves.
RECURSIVE TreesOfSize(_), ForestsOfSize(_)
TreesOfSize(n) ==
  IF n = 1
  THEN {Text("t")} \cup {Element(e.tag_name, e.attributes, <<>>) : e \in TreeElements}
  ELSE {Element(e.tag_name, e.attributes, f) :
          e \in TreeElements, f \in ForestsOfSize(n - 1)}

ForestsOfSize(n) ==
  IF n = 0 THEN {<<>>}
  ELSE UNION {{<<t>> \o f : t \in TreesOfSize(k), f \in ForestsOfSize(n - k)} :
                k \in 1..n}

DomTrees == UNION {TreesOfSize(n) : n \in 1..MaxNodes}

DivSelector == SimpleSelector({"div"}, {}, <<>>)
PSelector == SimpleSelector({"p"}, {}, <<>>)
DisplayRule(sel, v) == Rule(<<sel>>, <<Declaration("display", v)>>)

TreeStylesheets ==
  { Stylesheet(<<DisplayRule(DivSelector, Keyword("block"))>>),
    Stylesheet(<<DisplayRule(DivSelector, Keyword("block")),
                 DisplayRule(PSelector, Keyword("none"))>>),
    Stylesheet(<<DisplayRule(DivSelector, Keyword("inline")),
                 DisplayRule(PSelector, Length(px(10), "Px"))>>),
    Stylesheet(<<DisplayRule(DivSelector, ColorValue(<<163, 228, 215, 255>>)),
                 DisplayRule(PSelector, Keyword("flex")),
                 Rule(<<PSelector>>, <<Declaration("width", Length(px(50), "Px"))>>)>>) }

InitTree ==
  /\ pc = "start"
  /\ css_parser = Unused
  /\ canvas = Unused
  /\ item = Unused
  /\ element = Unused
  /\ selector = Unused
  /\ rule = Unused
  /\ stylesheet \in TreeStylesheets
  /\ root_node \in DomTrees
  /\ style_root = Unused
  /\ node = Unused
  /\ layout_box = Unused
  /\ containing_block = Unused
  /\ ret = Unused

StyleTree ==
  /\ pc = "start"
  /\ style_root' = style_tree(root_node, <<>>, stylesheet)
  /\ pc' = "style_tree"
  /\ UNCHANGED <<args, canvas, node, layout_box, ret>>

Display ==
  /\ pc = "style_tree"
  /\ \E p \in Paths(style_root) :
       /\ node' = p
       /\ ret' = display(NodeAt(style_root, p))
  /\ pc' = "display"
  /\ UNCHANGED <<args, canvas, style_root, layout_box>>

BuildLayoutTree ==
  /\ pc = "style_tree"
  /\ LET b == build_layout_tree(style_root, <<>>)
     IN  IF b = Panic
         THEN pc' = "panic" /\ UNCHANGED layout_box
         ELSE pc' = "build_layout_tree" /\ layout_box' = b
  /\ UNCHANGED <<args, canvas, style_root, node, ret>>

NextTree == StyleTree \/ Display \/ BuildLayoutTree

SpecTree == InitTree /\ [][NextTree]_vars

\* C6: the styled tree has the shape of the document tree: each styled node
\* refers to one document node, has as many children as it, and its i-th
\* child is the styled node of the document node's i-th child; an element's
\* mapping is specified_values(element, stylesheet), a text node's is empty.
C6_StyleTreeMirrorsDocument ==
  pc = "style_tree" =>
    /\ Paths(style_root) = Paths(root_node)
    /\ \A p \in Paths(root_node) :
         LET dn == NodeAt(root_node, p)
             sn == NodeAt(style_root, p)
         IN  /\ sn.node = p
             /\ Len(sn.children) = Len(dn.children)
             /\ \A i \in DOMAIN sn.children : sn.children[i].node = p \o <<i>>
             /\ dn.node_type.kind = "Element" =>
                  sn.specified_values = specified_values(dn.node_type.element, stylesheet)
             /\ dn.node_type.kind # "Element" => DOMAIN sn.specified_values = {}

\* A root with a text child followed by an element child that has a
\* non-empty mapping and a child of its own has been styled.
C6_Witness ==
  /\ pc = "style_tree"
  /\ Len(root_node.children) = 2
  /\ root_node.children[1].node_type.kind = "Text"
  /\ root_node.children[2].node_type.kind = "Element"
  /\ Len(root_node.children[2].children) = 1
  /\ DOMAIN style_root.children[2].specified_values # {}
  /\ DOMAIN style_root.children[1].specified_values = {}
  /\ style_root.children[2].children[1].node = <<2, 1>>

\* C7: display is Block exactly when "display" is the keyword "block", None
\* exactly when it is the keyword "none", and Inline otherwise (absent,
\* another keyword, a length or a color); every text node is Inline.
C7_DisplayCases ==
  pc = "display" =>
    LET sn == NodeAt(style_root, node)
        sv == sn.specified_values
        IsKeyword(k) ==
          /\ "display" \in DOMAIN sv
          /\ sv["display"].type = "Keyword"
          /\ sv["display"].s = k
    IN  /\ ret = "Block" <=> IsKeyword("block")
        /\ ret = "None" <=> IsKeyword("none")
        /\ ret = "Inline" <=> ~ IsKeyword("block") /\ ~ IsKeyword("none")
        /\ NodeAt(root_node, sn.node).node_type.kind = "Text" => ret = "Inline"

\* display has been applied to a node whose "display" is a length.
C7_Witness ==
  /\ pc = "display"
  /\ "display" \in DOMAIN NodeAt(style_root, node).specified_values
  /\ NodeAt(style_root, node).specified_values["display"].type = "Length"
  /\ ret = "Inline"

\* The display of the i-th child of the styled root.
ChildDisplay(i) == display(style_root.children[i])

\* The children of the styled root that are not display:none, in order.
VisibleChildren ==
  SelectSeq([i \in 1..Len(style_root.children) |-> i],
            LAMBDA i : ChildDisplay(i) # "None")

\* The styled children that a child box of the root box stands for.
BoxLeaves(b) ==
  IF b.box_type.type = "AnonymousBlock"
  THEN [k \in 1..Len(b.children) |-> b.children[k].box_type.node]
  ELSE <<b.box_type.node>>

\* The styled children the child boxes of the root box stand for, in order.
RootLeaves ==
  LET F[i \in 0..Len(layout_box.children)] ==
        IF i = 0 THEN <<>> ELSE F[i - 1] \o BoxLeaves(layout_box.children[i])
  IN  F[Len(layout_box.children)]

\* C8: under a Block node the child boxes are, in order, one BlockNode box
\* per Block child and one AnonymousBlock per maximal run of consecutive
\* Inline children (display:none children ignored), holding the InlineNode
\* boxes of the run in document order; [inline A, inline B, block C,
\* inline D] gives exactly [Anonymous(A, B), Block C, Anonymous(D)].
C8_AnonymousGrouping ==
  (pc = "build_layout_tree" /\ layout_box.box_type.type = "BlockNode") =>
    LET boxes == layout_box.children
    IN  /\ RootLeaves = [k \in 1..Len(VisibleChildren) |-> <<VisibleChildren[k]>>]
        /\ \A i \in DOMAIN boxes :
             LET b == boxes[i]
             IN  \/ /\ b.box_type.type = "BlockNode"
                    /\ ChildDisplay(b.box_type.node[1]) = "Block"
                 \/ /\ b.box_type.type = "AnonymousBlock"
                    /\ b.children # <<>>
                    /\ b.dimensions = DefaultDimensions
                    /\ \A k \in DOMAIN b.children :
                         /\ b.children[k].box_type.type = "InlineNode"
                         /\ ChildDisplay(b.children[k].box_type.node[1]) = "Inline"
                    /\ i > 1 => boxes[i - 1].box_type.type # "AnonymousBlock"
        /\ [i \in 1..Len(style_root.children) |-> ChildDisplay(i)]
             = <<"Inline", "Inline", "Block", "Inline">>
           => /\ [i \in 1..Len(boxes) |-> boxes[i].box_type.type]
                   = <<"AnonymousBlock", "BlockNode", "AnonymousBlock">>
              /\ BoxLeaves(boxes[1]) = << <<1>>, <<2>> >>
              /\ BoxLeaves(boxes[2]) = << <<3>> >>
              /\ BoxLeaves(boxes[3]) = << <<4>> >>

\* The box tree of a Block node with children [inline, inline, block,
\* inline] has been built.
C8_Witness ==
  /\ pc = "build_layout_tree"
  /\ layout_box.box_type.type = "BlockNode"
  /\ [i \in 1..Len(style_root.children) |-> ChildDisplay(i)]
       = <<"Inline", "Inline", "Block", "Inline">>
  /\ Len(layout_box.children) = 3

-----------------------------------------------------------------------------
(* SpecWidth: calculate_block_width on a fresh BlockNode box whose styled  *)
(* node declares any combination of the properties the function reads      *)

Absent == [type |-> "Absent"]

\* The mapping that gives names[i] the value vals[i] unless that is Absent.
PropertyMapOf(names, vals) ==
  [n \in {names[i] : i \in {j \in DOMAIN names : vals[j] # Absent}} |->
     vals[CHOOSE i \in DOMAIN names : names[i] = n]]

WidthPropertyNames ==
  <<"width", "margin-left", "margin-right", "margin",
    "border-left-width", "border-right-width", "border-width",
    "padding-left", "padding-right", "padding">>

WidthValues ==
  {Absent, Keyword("auto"), Length(px(50), "Px"), Length(px(120), "Px"),
   ColorValue(<<163, 228, 215, 255>>)}
MarginLeftValues ==
  {Absent, Keyword("auto"), Length(px(10), "Px"), Length(px(60), "Px"),
   Keyword("inherit")}
MarginRightValues ==
  {Absent, Keyword("auto"), Length(px(10), "Px"), Length(px(60), "Px")}
MarginValues == {Absent, Keyword("auto"), Length(px(25), "Px")}
BorderSideValues == {Absent, Length(px(1), "Px")}
BorderValues == {Absent, Length(px(2), "Px")}
PaddingSideValues == {Absent, Length(px(5), "Px")}
PaddingValues == {Absent, Length(px(3), "Px")}

WidthMaps ==
  {PropertyMapOf(WidthPropertyNames, <<w, ml, mr, m, bl, br, b, pl, pr, p>>) :
     w \in WidthValues, ml \in MarginLeftValues, mr \in MarginRightValues,
     m \in MarginValues, bl \in BorderSideValues, br \in BorderSideValues,
     b \in BorderValues, pl \in PaddingSideValues, pr \in PaddingSideValues,
     p \in PaddingValues}

ContainingBlocks ==
  {Dimensions(Rectangle(0, 0, w, px(100)), EdgeSizes(0, 0, 0, 0),
              EdgeSizes(0, 0, 0, 0), EdgeSizes(0, 0, 0, 0)) :
     w \in {px(100), px(33), px(200)}}

InitWidth ==
  /\ pc = "start"
  /\ css_parser = Unused
  /\ canvas = Unused
  /\ item = Unused
  /\ element = Unused
  /\ selector = Unused
  /\ rule = Unused
  /\ stylesheet = Unused
  /\ root_node = Element("div", [k \in {} |-> ""], <<>>)
  /\ style_root \in {StyledNode(<<>>, m, <<>>) : m \in WidthMaps}
  /\ node = Unused
  /\ layout_box = LayoutBox(BlockNode(<<>>))
  /\ containing_block \in ContainingBlocks
  /\ ret = Unused

CalculateBlockWidth ==
  /\ pc = "start"
  /\ LET b == calculate_block_width(style_root, layout_box, containing_block)
     IN  IF b = AnonymousPanic
         THEN pc' = "panic" /\ UNCHANGED layout_box
         ELSE pc' = "calculate_block_width" /\ layout_box' = b
  /\ UNCHANGED <<args, canvas, style_root, node, ret>>

NextWidth == CalculateBlockWidth

SpecWidth == InitWidth /\ [][NextWidth]_vars

\* The value the styled node declares for a property read with a fallback.
Declared(name, fallback_name) ==
  LET sv == style_root.specified_values
  IN  IF name \in DOMAIN sv THEN sv[name]
      ELSE IF fallback_name \in DOMAIN sv THEN sv[fallback_name]
      ELSE Length(0, "Px")

DeclaredWidth ==
  IF "width" \in DOMAIN style_root.specified_values
  THEN style_root.specified_values["width"]
  ELSE Keyword("auto")

\* Pixels of a declared value: a length counts as its size, anything else 0.
DeclaredPx(v) == IF v.type = "Length" THEN v.f ELSE 0

\* The sum of the seven declared horizontal values.
DeclaredTotal ==
  DeclaredPx(Declared("margin-left", "margin"))
    + DeclaredPx(Declared("margin-right", "margin"))
    + DeclaredPx(Declared("border-left-width", "border-width"))
    + DeclaredPx(Declared("border-right-width", "border-width"))
    + DeclaredPx(Declared("padding-left", "padding"))
    + DeclaredPx(Declared("padding-right", "padding"))
    + DeclaredPx(DeclaredWidth)

\* C9: after calculate_block_width the used margins, borders, paddings and
\* content width add up to the containing block's content width exactly,
\* for every combination of declared values, and all seven are numbers.
C9_HorizontalSumIsContainerWidth ==
  pc = "calculate_block_width" =>
    LET d == layout_box.dimensions
    IN  /\ d.margin.left + d.margin.right + d.border.left + d.border.right
             + d.padding.left + d.padding.right + d.content.width
           = containing_block.content.width
        /\ {d.margin.left, d.margin.right, d.border.left, d.border.right,
            d.padding.left, d.padding.right, d.content.width} \subseteq Int

\* An overflowing box with a declared width and both margins auto.
C9_Witness ==
  /\ pc = "calculate_block_width"
  /\ DeclaredWidth = Length(px(120), "Px")
  /\ Declared("margin-left", "margin") = Keyword("auto")
  /\ Declared("margin-right", "margin") = Keyword("auto")
  /\ layout_box.dimensions.margin.right < 0

\* C10: when width, margin-left and margin-right are all non-auto, content
\* width, margin-left, paddings and borders are written as declared and the
\* used margin-right is the declared one plus the underflow, positive or
\* negative; container 100, width 50, paddings 5/5, borders 1/1 and margins
\* 10/10 give margin-right 28.
C10_OverconstrainedMarginRight ==
  ( /\ pc = "calculate_block_width"
    /\ DeclaredWidth # Keyword("auto")
    /\ Declared("margin-left", "margin") # Keyword("auto")
    /\ Declared("margin-right", "margin") # Keyword("auto") ) =>
    LET d == layout_box.dimensions
    IN  /\ d.content.width = DeclaredPx(DeclaredWidth)
        /\ d.margin.left = DeclaredPx(Declared("margin-left", "margin"))
        /\ d.padding.left = DeclaredPx(Declared("padding-left", "padding"))
        /\ d.padding.right = DeclaredPx(Declared("padding-right", "padding"))
        /\ d.border.left = DeclaredPx(Declared("border-left-width", "border-width"))
        /\ d.border.right = DeclaredPx(Declared("border-right-width", "border-width"))
        /\ d.margin.right = DeclaredPx(Declared("margin-right", "margin"))
                              + (containing_block.content.width - DeclaredTotal)
        /\ ( /\ containing_block.content.width = px(100)
             /\ style_root.specified_values =
                  PropertyMapOf(WidthPropertyNames,
                    << Length(px(50), "Px"), Length(px(10), "Px"), Length(px(10), "Px"),
                       Absent, Length(px(1), "Px"), Length(px(1), "Px"), Absent,
                       Length(px(5), "Px"), Length(px(5), "Px"), Absent >>) )
           => d.margin.right = px(28)

\* The case of test_calculate_block_width has been laid out.
C10_Witness ==
  /\ pc = "calculate_block_width"
  /\ containing_block.content.width = px(100)
  /\ style_root.specified_values =
       PropertyMapOf(WidthPropertyNames,
         << Length(px(50), "Px"), Length(px(10), "Px"), Length(px(10), "Px"),
            Absent, Length(px(1), "Px"), Length(px(1), "Px"), Absent,
            Length(px(5), "Px"), Length(px(5), "Px"), Absent >>)
  /\ layout_box.dimensions.margin.right = px(28)

\* The underflow as the declared values give it: an auto value counts as 0.
DeclaredUnderflow == containing_block.content.width - DeclaredTotal

\* C11: with width auto or not declared, both used margins are the declared
\* ones with auto as 0, except that a negative underflow is added to
\* margin-right; the content width is the underflow when that is >= 0 and 0
\* otherwise, so it is never negative; a 200-wide container and no declared
\* margins, borders or paddings give width 200.
C11_AutoWidth ==
  (pc = "calculate_block_width" /\ DeclaredWidth = Keyword("auto")) =>
    LET d == layout_box.dimensions
        ml == Declared("margin-left", "margin")
        mr == Declared("margin-right", "margin")
    IN  /\ d.margin.left = DeclaredPx(ml)
        /\ ml = Keyword("auto") => d.margin.left = 0
        /\ DeclaredUnderflow >= 0 =>
             /\ d.content.width = DeclaredUnderflow
             /\ d.margin.right = DeclaredPx(mr)
             /\ mr = Keyword("auto") => d.margin.right = 0
        /\ DeclaredUnderflow < 0 =>
             /\ d.content.width = 0
             /\ d.margin.right = DeclaredPx(mr) + DeclaredUnderflow
        /\ d.content.width >= 0
        /\ ( /\ containing_block.content.width = px(200)
             /\ DOMAIN style_root.specified_values \subseteq {"width"} )
           => d.content.width = px(200)

\* An auto-width box with an auto margin-left whose edges alone are wider
\* than its container: width 0 and a margin-right cut down by the underflow.
C11_Witness ==
  /\ pc = "calculate_block_width"
  /\ DeclaredWidth = Keyword("auto")
  /\ Declared("margin-left", "margin") = Keyword("auto")
  /\ DeclaredUnderflow < 0
  /\ layout_box.dimensions.content.width = 0
  /\ layout_box.dimensions.margin.left = 0
  /\ layout_box.dimensions.margin.right
       < DeclaredPx(Declared("margin-right", "margin"))

\* C12: with a declared length as width and a declared total within the
\* container, a single auto margin takes the whole underflow while the other
\* keeps its declared value, and two auto margins take half of the underflow
\* each, so they are equal.
C12_AutoMargins ==
  ( /\ pc = "calculate_block_width"
    /\ DeclaredWidth.type = "Length"
    /\ DeclaredTotal <= containing_block.content.width ) =>
    LET d == layout_box.dimensions
        ml == Declared("margin-left", "margin")
        mr == Declared("margin-right", "margin")
        auto == Keyword("auto")
    IN  /\ (ml = auto /\ mr # auto) =>
             /\ d.margin.left = DeclaredUnderflow
             /\ d.margin.right = DeclaredPx(mr)
        /\ (ml # auto /\ mr = auto) =>
             /\ d.margin.right = DeclaredUnderflow
             /\ d.margin.left = DeclaredPx(ml)
        /\ (ml = auto /\ mr = auto) =>
             /\ d.margin.left = d.margin.right
             /\ d.margin.left + d.margin.right = DeclaredUnderflow

\* A box of declared width with both margins auto has been centred with
\* margins that are not zero.
C12_Witness ==
  /\ pc = "calculate_block_width"
  /\ DeclaredWidth.type = "Length"
  /\ Declared("margin-left", "margin") = Keyword("auto")
  /\ Declared("margin-right", "margin") = Keyword("auto")
  /\ DeclaredUnderflow > 0
  /\ layout_box.dimensions.margin.left = layout_box.dimensions.margin.right
  /\ layout_box.dimensions.margin.left > 0

-----------------------------------------------------------------------------
(* SpecPosition: calculate_block_width and then calculate_block_position   *)
(* on a fresh BlockNode box, as layout_block and the tests call them        *)

PositionPropertyNames ==
  <<"width", "margin-left", "border-left-width", "padding-left",
    "margin-top", "margin-bottom", "margin",
    "border-top-width", "border-bottom-width", "border-width",
    "padding-top", "padding-bottom">>

VerticalMarginValues == {Absent, Keyword("auto"), Length(px(10), "Px")}

PositionMaps ==
  {PropertyMapOf(PositionPropertyNames,
                 <<w, ml, bl, pl, mt, mb, m, bt, bb, b, pt, pb>>) :
     w \in {Absent, Length(px(50), "Px")},
     ml \in VerticalMarginValues, bl \in BorderSideValues,
     pl \in PaddingSideValues,
     mt \in VerticalMarginValues, mb \in VerticalMarginValues,
     m \in MarginValues,
     bt \in BorderSideValues, bb \in BorderSideValues, b \in BorderValues,
     pt \in PaddingSideValues, pb \in PaddingSideValues}

PositionContainingBlocks ==
  { Dimensions(Rectangle(0, 0, px(100), px(100)), EdgeSizes(0, 0, 0, 0),
               EdgeSizes(0, 0, 0, 0), EdgeSizes(0, 0, 0, 0)),
    Dimensions(Rectangle(px(7), px(3), px(100), px(40)), EdgeSizes(0, 0, 0, 0),
               EdgeSizes(0, 0, 0, 0), EdgeSizes(0, 0, 0, 0)) }

InitPosition ==
  /\ pc = "start"
  /\ css_parser = Unused
  /\ canvas = Unused
  /\ item = Unused
  /\ element = Unused
  /\ selector = Unused
  /\ rule = Unused
  /\ stylesheet = Unused
  /\ root_node = Element("div", [k \in {} |-> ""], <<>>)
  /\ style_root \in {StyledNode(<<>>, m, <<>>) : m \in PositionMaps}
  /\ node = Unused
  /\ layout_box = LayoutBox(BlockNode(<<>>))
  /\ containing_block \in PositionContainingBlocks
  /\ ret = Unused

CalculateBlockPosition ==
  /\ pc = "calculate_block_width"
  /\ LET b == calculate_block_position(style_root, layout_box, containing_block)
     IN  IF b = AnonymousPanic
         THEN pc' = "panic" /\ UNCHANGED layout_box
         ELSE pc' = "calculate_block_position" /\ layout_box' = b
  /\ UNCHANGED <<args, canvas, style_root, node, ret>>

NextPosition == CalculateBlockWidth \/ CalculateBlockPosition

SpecPosition == InitPosition /\ [][NextPosition]_vars

\* C13: after calculate_block_width and calculate_block_position, content.x
\* is the container's content.x plus the used margin-left, border-left and
\* padding-left, content.y is the container's content.height plus content.y
\* plus the box's margin-top, border-top and padding-top, and the six
\* vertical edges are the declared lengths, auto being 0; what
\* calculate_block_width wrote is kept.  Container (0,0,100,100) with
\* left/top margin 10, border 1 and padding 5 gives x = 16, y = 116.
C13_BlockPosition ==
  pc = "calculate_block_position" =>
    LET d == layout_box.dimensions
        c == containing_block.content
        w == calculate_block_width(style_root, LayoutBox(BlockNode(<<>>)),
                                   containing_block).dimensions
    IN  /\ d.content.x = c.x + d.margin.left + d.border.left + d.padding.left
        /\ d.content.y = c.height + c.y + d.margin.top + d.border.top + d.padding.top
        /\ d.margin.top = DeclaredPx(Declared("margin-top", "margin"))
        /\ d.margin.bottom = DeclaredPx(Declared("margin-bottom", "margin"))
        /\ Declared("margin-top", "margin") = Keyword("auto") => d.margin.top = 0
        /\ Declared("margin-bottom", "margin") = Keyword("auto") => d.margin.bottom = 0
        /\ d.border.top = DeclaredPx(Declared("border-top-width", "border-width"))
        /\ d.border.bottom = DeclaredPx(Declared("border-bottom-width", "border-width"))
        /\ d.padding.top = DeclaredPx(Declared("padding-top", "padding"))
        /\ d.padding.bottom = DeclaredPx(Declared("padding-bottom", "padding"))
        /\ d.content.width = w.content.width
        /\ d.content.height = 0
        /\ <<d.margin.left, d.margin.right, d.border.left, d.border.right,
             d.padding.left, d.padding.right>>
           = <<w.margin.left, w.margin.right, w.border.left, w.border.right,
               w.padding.left, w.padding.right>>
        /\ ( /\ c = Rectangle(0, 0, px(100), px(100))
             /\ Declared("margin-left", "margin") = Length(px(10), "Px")
             /\ Declared("margin-top", "margin") = Length(px(10), "Px")
             /\ Declared("border-left-width", "border-width") = Length(px(1), "Px")
             /\ Declared("border-top-width", "border-width") = Length(px(1), "Px")
             /\ Declared("padding-left", "padding") = Length(px(5), "Px")
             /\ Declared("padding-top", "padding") = Length(px(5), "Px") )
           => (d.content.x = px(16) /\ d.content.y = px(116))

\* The case of test_calculate_block_position has been positioned.
C13_Witness ==
  /\ pc = "calculate_block_position"
  /\ containing_block.content = Rectangle(0, 0, px(100), px(100))
  /\ style_root.specified_values =
       PropertyMapOf(PositionPropertyNames,
         << Length(px(50), "Px"), Length(px(10), "Px"), Length(px(1), "Px"),
            Length(px(5), "Px"), Length(px(10), "Px"), Length(px(10), "Px"),
            Absent, Length(px(1), "Px"), Length(px(1), "Px"), Absent,
            Length(px(5), "Px"), Length(px(5), "Px") >>)
  /\ layout_box.dimensions.content.x = px(16)
  /\ layout_box.dimensions.content.y = px(116)

-----------------------------------------------------------------------------
(* SpecLayout: build_layout_tree, layout_block and layout_tree on a styled *)
(* tree of up to MaxStyledNodes nodes whose nodes take their specified      *)
(* values from a pool of block, inline and undisplayed styles               *)

LayoutStyles ==
  { \* a block of declared width and height, pushed right by its margin
    PropertyMapOf(<<"display", "width", "height", "margin-left">>,
                  <<Keyword("block"), Length(px(50), "Px"), Length(px(40), "Px"),
                    Keyword("auto")>>),
    \* a block without height: its edges alone make a margin box 42 high
    PropertyMapOf(<<"display", "padding-top", "padding-bottom",
                    "border-top-width", "border-bottom-width">>,
                  <<Keyword("block"), Length(px(20), "Px"), Length(px(20), "Px"),
                    Length(px(1), "Px"), Length(px(1), "Px")>>),
    \* a block whose height is a keyword
    PropertyMapOf(<<"display", "height", "margin", "margin-top">>,
                  <<Keyword("block"), Keyword("auto"), Length(px(3), "Px"),
                    Keyword("auto")>>),
    \* a block that declares nothing else, but for a height that is a colour
    PropertyMapOf(<<"display", "height">>,
                  <<Keyword("block"), ColorValue(<<163, 228, 215, 255>>)>>),
    \* an inline element that declares sizes and edges
    PropertyMapOf(<<"width", "height", "margin", "padding">>,
                  <<Length(px(50), "Px"), Length(px(50), "Px"),
                    Length(px(10), "Px"), Length(px(5), "Px")>>),
    \* an element that is not displayed
    PropertyMapOf(<<"display", "height">>,
                  <<Keyword("none"), Length(px(10), "Px")>>) }

\* The shapes of the ordered trees of n nodes: the depth of each node, the
\* nodes taken in document order.
StyledShapes(n) ==
  {d \in [1..n -> 0..(n - 1)] :
     /\ d[1] = 0
     /\ \A i \in 2..n : d[i] >= 1 /\ d[i] <= d[i - 1] + 1}

\* The styled tree of the i-th node of a shape, whose k-th node has the
\* specified values values[k]; each styled node refers to the document node
\* at its own position.
RECURSIVE StyledSubtree(_, _, _, _)
StyledSubtree(d, values, i, path) ==
  LET n == Len(d)
      last == CHOOSE e \in i..n :
                /\ \A j \in (i + 1)..e : d[j] > d[i]
                /\ e < n => d[e + 1] <= d[i]
      C == {j \in (i + 1)..last : d[j] = d[i] + 1}
      kth(k) == CHOOSE j \in C : Cardinality({x \in C : x < j}) = k - 1
  IN  StyledNode(path, values[i],
                 [k \in 1..Cardinality(C) |->
                    StyledSubtree(d, values, kth(k), path \o <<k>>)])

LayoutContainingBlocks ==
  { Dimensions(Rectangle(px(7), px(3), px(200), px(100)), EdgeSizes(0, 0, 0, 0),
               EdgeSizes(0, 0, 0, 0), EdgeSizes(0, 0, 0, 0)) }

\* The style tree has been built: the driver stands where main.rs calls
\* layout_tree.
InitLayout ==
  /\ pc = "style_tree"
  /\ css_parser = Unused
  /\ canvas = Unused
  /\ item = Unused
  /\ element = Unused
  /\ selector = Unused
  /\ rule = Unused
  /\ stylesheet = Unused
  /\ root_node = Unused
  /\ \E n \in 1..MaxStyledNodes :
       \E d \in StyledShapes(n) :
         \E values \in [1..n -> LayoutStyles] :
           style_root = StyledSubtree(d, values, 1, <<>>)
  /\ node = Unused
  /\ layout_box = Unused
  /\ containing_block \in LayoutContainingBlocks
  /\ ret = Unused

\* layout_block called on the root box that build_layout_tree returned, as
\* test_layout_block_children does step by step.
LayoutBlock ==
  /\ pc = "build_layout_tree"
  /\ LET b == layout_block(style_root, layout_box, containing_block)
     IN  IF b = AnonymousPanic
         THEN pc' = "panic" /\ UNCHANGED layout_box
         ELSE pc' = "layout_block" /\ layout_box' = b
  /\ UNCHANGED <<args, canvas, style_root, node, ret>>

LayoutTree ==
  /\ pc = "style_tree"
  /\ LET b == layout_tree(style_root, containing_block)
     IN  IF b = Panic
         THEN pc' = "panic" /\ UNCHANGED layout_box
         ELSE pc' = "layout_tree" /\ layout_box' = b
  /\ UNCHANGED <<args, canvas, style_root, node, ret>>

NextLayout == BuildLayoutTree \/ LayoutBlock \/ LayoutTree

SpecLayout == InitLayout /\ [][NextLayout]_vars

\* The box at a path of a box tree, and the paths of a box tree.
RECURSIVE BoxAt(_, _)
BoxAt(box, path) ==
  IF path = <<>> THEN box
  ELSE BoxAt(box.children[Head(path)], Tail(path))

RECURSIVE BoxPaths(_)
BoxPaths(box) ==
  {<<>>} \cup UNION {{<<i>> \o q : q \in BoxPaths(box.children[i])} :
                       i \in DOMAIN box.children}

\* The paths of the boxes layout_block has run on, when it has run on box:
\* the box itself and, through layout, the BlockNode children of such boxes.
RECURSIVE LaidOutPaths(_)
LaidOutPaths(box) ==
  {<<>>} \cup UNION {{<<i>> \o q : q \in LaidOutPaths(box.children[i])} :
                       i \in {k \in DOMAIN box.children :
                                box.children[k].box_type.type = "BlockNode"}}

\* The BlockNode boxes of the current box tree that layout_block has run on.
LaidOutBlocks ==
  IF pc \notin {"layout_block", "layout_tree"} THEN {}
  ELSE IF pc = "layout_tree" /\ layout_box.box_type.type # "BlockNode" THEN {}
  ELSE {p \in LaidOutPaths(layout_box) :
          BoxAt(layout_box, p).box_type.type = "BlockNode"}

\* Height of the margin box of child i of a box, and the sum for the
\* children before child i.
ChildMarginBoxHeight(box, i) == margin_box(box.children[i].dimensions).height

HeightsBefore(box, i) ==
  LET F[k \in 0..Len(box.children)] ==
        IF k = 0 THEN 0 ELSE F[k - 1] + ChildMarginBoxHeight(box, k)
  IN  F[i - 1]

\* C14: in every BlockNode box P that layout_block has run on, the margin
\* box of each BlockNode child starts at P.content.y plus the final
\* margin-box heights of the children before it, inline and anonymous
\* children counting 0; so consecutive block siblings are contiguous.
C14_VerticalStacking ==
  \A p \in LaidOutBlocks :
    LET P == BoxAt(layout_box, p)
        Block(i) == P.children[i].box_type.type = "BlockNode"
        mb(i) == margin_box(P.children[i].dimensions)
    IN  /\ \A i \in DOMAIN P.children :
             /\ Block(i) => mb(i).y = P.dimensions.content.y + HeightsBefore(P, i)
             /\ ~Block(i) => ChildMarginBoxHeight(P, i) = 0
        /\ \A i \in DOMAIN P.children :
             (i > 1 /\ Block(i) /\ Block(i - 1)) =>
               mb(i).y = mb(i - 1).y + mb(i - 1).height
        /\ \A i, k \in DOMAIN P.children :
             (k < i /\ Block(i) /\ Block(k)) => mb(i).y >= mb(k).y + mb(k).height

\* A block with a block, an anonymous block and a block as children: the
\* last child starts right below the first.
C14_Witness ==
  /\ pc = "layout_block"
  /\ layout_box.box_type.type = "BlockNode"
  /\ Len(layout_box.children) = 3
  /\ layout_box.children[1].box_type.type = "BlockNode"
  /\ layout_box.children[2].box_type.type = "AnonymousBlock"
  /\ layout_box.children[3].box_type.type = "BlockNode"
  /\ ChildMarginBoxHeight(layout_box, 1) > 0
  /\ margin_box(layout_box.children[3].dimensions).y
       = layout_box.dimensions.content.y + ChildMarginBoxHeight(layout_box, 1)
  /\ containing_block.content.height > 0

\* The height a styled node declares in pixels, as a set.
DeclaredPixelHeight(style_node) ==
  IF "height" \in DOMAIN style_node.specified_values
     /\ style_node.specified_values["height"].type = "Length"
  THEN {style_node.specified_values["height"].f}
  ELSE {}

\* C15: in every BlockNode box that layout_block has run on, content.height
\* is the declared height when that is a pixel length and otherwise the sum
\* of the margin-box heights of its children: 82 for children of 40 and 42,
\* 0 without block children.
C15_HeightResolution ==
  \A p \in LaidOutBlocks :
    LET P == BoxAt(layout_box, p)
        h == DeclaredPixelHeight(NodeAt(style_root, P.box_type.node))
        n == Len(P.children)
    IN  /\ h # {} => P.dimensions.content.height \in h
        /\ h = {} =>
             /\ P.dimensions.content.height = HeightsBefore(P, n + 1)
             /\ ( /\ n = 2
                  /\ ChildMarginBoxHeight(P, 1) = px(40)
                  /\ ChildMarginBoxHeight(P, 2) = px(42) )
                => P.dimensions.content.height = px(82)
             /\ (\A i \in 1..n : P.children[i].box_type.type # "BlockNode")
                => P.dimensions.content.height = 0

\* A block without a pixel height and with children of margin-box heights
\* 40 and 42 has been laid out to height 82.
C15_Witness ==
  /\ pc = "layout_block"
  /\ layout_box.box_type.type = "BlockNode"
  /\ DeclaredPixelHeight(style_root) = {}
  /\ Len(layout_box.children) = 2
  /\ ChildMarginBoxHeight(layout_box, 1) = px(40)
  /\ ChildMarginBoxHeight(layout_box, 2) = px(42)
  /\ layout_box.dimensions.content.height = px(82)

\* C16: layout_tree gives the same box tree whatever the content height of
\* the initial containing block, and places a BlockNode root at the
\* container's content.y plus the root's margin-top, border-top and
\* padding-top.
C16_InitialHeightIgnored ==
  pc = "layout_tree" =>
    /\ \A h \in {0, px(50), px(300)} :
         layout_tree(style_root, [containing_block EXCEPT !.content.height = h])
           = layout_box
    /\ layout_box.box_type.type = "BlockNode" =>
         LET d == layout_box.dimensions
         IN  d.content.y = containing_block.content.y
                             + d.margin.top + d.border.top + d.padding.top

\* A block root with a border and a padding at the top, laid out in a
\* containing block of content height 100.
C16_Witness ==
  /\ pc = "layout_tree"
  /\ containing_block.content.height = px(100)
  /\ layout_box.box_type.type = "BlockNode"
  /\ layout_box.dimensions.border.top = px(1)
  /\ layout_box.dimensions.content.y = containing_block.content.y + px(21)
  /\ Len(layout_box.children) > 0

\* The dimensions of the box that contains the box at a path of the tree
\* layout_tree returned: the parent box, or the initial containing block.
ParentDimensions(p) ==
  IF p = <<>> THEN [containing_block EXCEPT !.content.height = 0]
  ELSE BoxAt(layout_box, SubSeq(p, 1, Len(p) - 1)).dimensions

\* The width a styled node declares in pixels, as a set.
DeclaredPixelWidth(style_node) ==
  IF "width" \in DOMAIN style_node.specified_values
     /\ style_node.specified_values["width"].type = "Length"
  THEN {style_node.specified_values["width"].f}
  ELSE {}

\* What layout_block leaves in a box laid out in a container of dimensions
\* parent: edges and width add up to the container's content width, and a
\* declared pixel width or height is the content width or height.
Populated(box, parent) ==
  LET d == box.dimensions
      style_node == NodeAt(style_root, box.box_type.node)
  IN  /\ d.margin.left + d.margin.right + d.border.left + d.border.right
           + d.padding.left + d.padding.right + d.content.width
         = parent.content.width
      /\ \A w \in DeclaredPixelWidth(style_node) : d.content.width = w
      /\ \A h \in DeclaredPixelHeight(style_node) : d.content.height = h

\* C17: in the tree layout_tree returns, every BlockNode box, whatever its
\* ancestors, has been laid out against its parent's dimensions.
C17_EveryBlockNodePopulated ==
  pc = "layout_tree" =>
    \A p \in BoxPaths(layout_box) :
      BoxAt(layout_box, p).box_type.type = "BlockNode" =>
        Populated(BoxAt(layout_box, p), ParentDimensions(p))

\* C18: in the tree layout_tree returns, every InlineNode and AnonymousBlock
\* box is present with all its dimensions 0, whatever its node declares.
C18_InlineAndAnonymousZero ==
  pc = "layout_tree" =>
    \A p \in BoxPaths(layout_box) :
      BoxAt(layout_box, p).box_type.type \in {"InlineNode", "AnonymousBlock"} =>
        BoxAt(layout_box, p).dimensions = DefaultDimensions

\* A laid out block root whose first child is an anonymous block around an
\* inline box of declared width; both are zero.
C18_Witness ==
  /\ pc = "layout_tree"
  /\ layout_box.box_type.type = "BlockNode"
  /\ layout_box.dimensions.content.width > 0
  /\ Len(layout_box.children) > 0
  /\ layout_box.children[1].box_type.type = "AnonymousBlock"
  /\ layout_box.children[1].dimensions = DefaultDimensions
  /\ LET inline == layout_box.children[1].children[1]
     IN  /\ inline.box_type.type = "InlineNode"
         /\ DeclaredPixelWidth(NodeAt(style_root, inline.box_type.node)) # {}
         /\ inline.dimensions = DefaultDimensions

\* C19: build_layout_tree and layout_tree panic exactly when the display of
\* the styled node they are given is None, and then leave no box tree; a
\* node with display None below the root is skipped, so every box of a tree
\* that was built stands for a node whose display is the box's type.
C19_DisplayNoneRootPanics ==
  /\ pc # "style_tree" => (pc = "panic" <=> display(style_root) = "None")
  /\ pc = "panic" => layout_box = Unused
  /\ pc \in {"build_layout_tree", "layout_block", "layout_tree"} =>
       \A p \in BoxPaths(layout_box) :
         LET b == BoxAt(layout_box, p)
         IN  /\ b.box_type.type = "BlockNode" =>
                  display(NodeAt(style_root, b.box_type.node)) = "Block"
             /\ b.box_type.type = "InlineNode" =>
                  display(NodeAt(style_root, b.box_type.node)) = "Inline"

\* The call on a root with display None and with children has panicked.
C19_Witness ==
  /\ pc = "panic"
  /\ display(style_root) = "None"
  /\ Len(style_root.children) > 0
  /\ layout_box = Unused

-----------------------------------------------------------------------------
(* SpecAnonymous: the block formatting functions called directly on any    *)
(* box of a freshly built box tree, anonymous blocks included              *)

\* Shapes with a root and one child, two children, or a child and a
\* grandchild.
AnonymousShapes == {<<0, 1>>, <<0, 1, 1>>, <<0, 1, 2>>}

InitAnonymous ==
  /\ pc = "style_tree"
  /\ css_parser = Unused
  /\ canvas = Unused
  /\ item = Unused
  /\ element = Unused
  /\ selector = Unused
  /\ rule = Unused
  /\ stylesheet = Unused
  /\ root_node = Unused
  /\ \E d \in AnonymousShapes :
       \E values \in [1..Len(d) -> LayoutStyles] :
         style_root = StyledSubtree(d, values, 1, <<>>)
  /\ node = Unused
  /\ layout_box = Unused
  /\ containing_block \in LayoutContainingBlocks
  /\ ret = Unused

\* Each method is called on some box of the built tree: node records the
\* box, ret what the call gives, the box after the call or the panic.
GetStyleNode ==
  /\ pc = "build_layout_tree"
  /\ \E p \in BoxPaths(layout_box) :
       /\ node' = p
       /\ ret' = get_style_node(style_root, BoxAt(layout_box, p))
  /\ pc' = "get_style_node"
  /\ UNCHANGED <<args, canvas, style_root, layout_box>>

CalculateBlockWidthOnBox ==
  /\ pc = "build_layout_tree"
  /\ \E p \in BoxPaths(layout_box) :
       /\ node' = p
       /\ ret' = calculate_block_width(style_root, BoxAt(layout_box, p),
                                    containing_block)
  /\ pc' = "calculate_block_width_on_box"
  /\ UNCHANGED <<args, canvas, style_root, layout_box>>

CalculateBlockPositionOnBox ==
  /\ pc = "build_layout_tree"
  /\ \E p \in BoxPaths(layout_box) :
       /\ node' = p
       /\ ret' = calculate_block_position(style_root, BoxAt(layout_box, p),
                                       containing_block)
  /\ pc' = "calculate_block_position_on_box"
  /\ UNCHANGED <<args, canvas, style_root, layout_box>>

CalculateBlockHeightOnBox ==
  /\ pc = "build_layout_tree"
  /\ \E p \in BoxPaths(layout_box) :
       /\ node' = p
       /\ ret' = calculate_block_height(style_root, BoxAt(layout_box, p))
  /\ pc' = "calculate_block_height_on_box"
  /\ UNCHANGED <<args, canvas, style_root, layout_box>>

LayoutBlockOnBox ==
  /\ pc = "build_layout_tree"
  /\ \E p \in BoxPaths(layout_box) :
       /\ node' = p
       /\ ret' = layout_block(style_root, BoxAt(layout_box, p), containing_block)
  /\ pc' = "layout_block_on_box"
  /\ UNCHANGED <<args, canvas, style_root, layout_box>>

NextAnonymous ==
  \/ BuildLayoutTree
  \/ GetStyleNode
  \/ CalculateBlockWidthOnBox
  \/ CalculateBlockPositionOnBox
  \/ CalculateBlockHeightOnBox
  \/ LayoutBlockOnBox

SpecAnonymous == InitAnonymous /\ [][NextAnonymous]_vars

CallsOnBox ==
  {"get_style_node", "calculate_block_width_on_box",
   "calculate_block_position_on_box", "calculate_block_height_on_box",
   "layout_block_on_box"}

\* C20: get_style_node, calculate_block_width, calculate_block_position,
\* calculate_block_height and layout_block called on an AnonymousBlock box
\* panic; called on a BlockNode or InlineNode box they do not, and
\* get_style_node returns the styled node the box refers to.
C20_AnonymousBlockPanics ==
  pc \in CallsOnBox =>
    LET b == BoxAt(layout_box, node)
    IN  /\ b.box_type.type = "AnonymousBlock" => ret = AnonymousPanic
        /\ b.box_type.type \in {"BlockNode", "InlineNode"} =>
             /\ ret # AnonymousPanic
             /\ pc = "get_style_node" =>
                  /\ ret = NodeAt(style_root, b.box_type.node)
                  /\ ret.node = b.box_type.node
             /\ pc # "get_style_node" => ret.box_type = b.box_type

\* layout_block has been called on an anonymous block and has panicked.
C20_Witness ==
  /\ pc = "layout_block_on_box"
  /\ BoxAt(layout_box, node).box_type.type = "AnonymousBlock"
  /\ Len(BoxAt(layout_box, node).children) > 0
  /\ ret = AnonymousPanic

-----------------------------------------------------------------------------
(* SpecContainer: get_inline_container called, once and again, on a box of *)
(* a freshly built box tree                                                *)

\* The box tree with the box at a path replaced: what a change made through
\* a mutable reference to that box does to the tree.
RECURSIVE ReplaceAt(_, _, _)
ReplaceAt(tree, path, box) ==
  IF path = <<>> THEN box
  ELSE [tree EXCEPT !.children[Head(path)] = ReplaceAt(@, Tail(path), box)]

\* The first call, on any box of the tree; ret is the reference returned,
\* as a path from the box.
GetInlineContainer ==
  /\ pc = "build_layout_tree"
  /\ \E p \in BoxPaths(layout_box) :
       LET g == get_inline_container(BoxAt(layout_box, p))
       IN  /\ node' = p
           /\ layout_box' = ReplaceAt(layout_box, p, g.box)
           /\ ret' = g.container
  /\ pc' = "get_inline_container"
  /\ UNCHANGED <<args, canvas, style_root>>

\* A further call on the same box.
GetInlineContainerAgain ==
  /\ pc \in {"get_inline_container", "get_inline_container_again"}
  /\ LET g == get_inline_container(BoxAt(layout_box, node))
     IN  /\ layout_box' = ReplaceAt(layout_box, node, g.box)
         /\ ret' = g.container
  /\ pc' = "get_inline_container_again"
  /\ UNCHANGED <<args, canvas, style_root, node>>

NextContainer == BuildLayoutTree \/ GetInlineContainer \/ GetInlineContainerAgain

SpecContainer == InitAnonymous /\ [][NextContainer]_vars

\* C21: a call of get_inline_container on an InlineNode or AnonymousBlock
\* box returns that box and changes nothing; on a BlockNode box it returns
\* the last child when that is an AnonymousBlock and otherwise appends one
\* empty AnonymousBlock and returns it.  The children there were stay in
\* place, nothing else in the tree changes, and a call that follows another
\* adds no child.
C21_GetInlineContainer ==
  [][pc' \in {"get_inline_container", "get_inline_container_again"} =>
       LET before == BoxAt(layout_box, node')
           after == BoxAt(layout_box', node')
           n == Len(before.children)
       IN  /\ before.box_type.type \in {"InlineNode", "AnonymousBlock"} =>
                ret' = <<>> /\ after = before
           /\ before.box_type.type = "BlockNode" =>
                IF n > 0 /\ before.children[n].box_type.type = "AnonymousBlock"
                THEN ret' = <<n>> /\ after = before
                ELSE /\ ret' = <<n + 1>>
                     /\ after = [before EXCEPT !.children =
                                   Append(@, LayoutBox(AnonymousBlock))]
           /\ Len(after.children) >= n
           /\ SubSeq(after.children, 1, n) = before.children
           /\ layout_box' = ReplaceAt(layout_box, node', after)
           /\ pc' = "get_inline_container_again" => layout_box' = layout_box
    ]_vars

\* After two calls a BlockNode box whose last child was a block has one
\* child more than build_layout_tree gave it, an empty anonymous block.
C21_Witness ==
  /\ pc = "get_inline_container_again"
  /\ LET b == BoxAt(layout_box, node)
         built == BoxAt(build_layout_tree(style_root, <<>>), node)
     IN  /\ b.box_type.type = "BlockNode"
         /\ Len(built.children) > 0
         /\ Len(b.children) = Len(built.children) + 1
         /\ b.children[Len(b.children)] = LayoutBox(AnonymousBlock)
         /\ ret = <<Len(b.children)>>

-----------------------------------------------------------------------------
(* SpecBoxes: expanded_by and the derived boxes of a Dimensions value      *)

BoxRectangles ==
  {Rectangle(x, px(20), px(30), h) : x \in {0, px(10)}, h \in {0, px(40)}}

BoxEdges ==
  { EdgeSizes(0, 0, 0, 0),
    EdgeSizes(px(15), px(10), px(20), px(5)),
    EdgeSizes(px(1), px(2), px(3), px(4)) }

\* A margin may have been made negative by calculate_block_width.
BoxMargins == BoxEdges \cup {EdgeSizes(0, 0 - px(8), 0, px(6))}

InitBoxes ==
  /\ pc = "start"
  /\ css_parser = Unused
  /\ canvas = Unused
  /\ item = Unused
  /\ element = Unused
  /\ selector = Unused
  /\ rule = Unused
  /\ stylesheet = Unused
  /\ root_node = Unused
  /\ style_root = Unused
  /\ node = Unused
  /\ layout_box = Unused
  /\ containing_block \in
       {Dimensions(c, p, b, m) :
          c \in BoxRectangles, p \in BoxEdges, b \in BoxEdges, m \in BoxMargins}
  /\ ret = Unused

ExpandedBy ==
  /\ pc = "start"
  /\ ret' = expanded_by(containing_block.content, containing_block.padding)
  /\ pc' = "expanded_by"
  /\ UNCHANGED <<args, canvas, style_root, node, layout_box>>

PaddingBox ==
  /\ pc = "start"
  /\ ret' = padding_box(containing_block)
  /\ pc' = "padding_box"
  /\ UNCHANGED <<args, canvas, style_root, node, layout_box>>

BorderBox ==
  /\ pc = "start"
  /\ ret' = border_box(containing_block)
  /\ pc' = "border_box"
  /\ UNCHANGED <<args, canvas, style_root, node, layout_box>>

MarginBox ==
  /\ pc = "start"
  /\ ret' = margin_box(containing_block)
  /\ pc' = "margin_box"
  /\ UNCHANGED <<args, canvas, style_root, node, layout_box>>

NextBoxes == ExpandedBy \/ PaddingBox \/ BorderBox \/ MarginBox

SpecBoxes == InitBoxes /\ [][NextBoxes]_vars

\* The rectangle grown by l, t, r and b at its four sides.
Grown(rect, t, r, b, l) ==
  [x |-> rect.x - l, y |-> rect.y - t,
   width |-> rect.width + l + r, height |-> rect.height + t + b]

\* C22: expanded_by gives (x - left, y - top, width + left + right,
\* height + top + bottom); the padding box is the content grown by the
\* padding, the border box by padding + border and the margin box by
\* padding + border + margin, side by side.  (10, 20, 30, 40) expanded by
\* top 15, right 10, bottom 20, left 5 is (5, 5, 45, 75).
C22_DerivedBoxes ==
  LET c == containing_block.content
      p == containing_block.padding
      b == containing_block.border
      m == containing_block.margin
  IN  /\ pc = "expanded_by" =>
           /\ ret = Grown(c, p.top, p.right, p.bottom, p.left)
           /\ (c = Rectangle(px(10), px(20), px(30), px(40))
                 /\ p = EdgeSizes(px(15), px(10), px(20), px(5)))
              => ret = Rectangle(px(5), px(5), px(45), px(75))
      /\ pc = "padding_box" => ret = Grown(c, p.top, p.right, p.bottom, p.left)
      /\ pc = "border_box" =>
           ret = Grown(c, p.top + b.top, p.right + b.right,
                       p.bottom + b.bottom, p.left + b.left)
      /\ pc = "margin_box" =>
           ret = Grown(c, p.top + b.top + m.top, p.right + b.right + m.right,
                       p.bottom + b.bottom + m.bottom, p.left + b.left + m.left)

\* The margin box of a box with three different edges, one margin negative.
C22_Witness ==
  /\ pc = "margin_box"
  /\ containing_block.content = Rectangle(px(10), px(20), px(30), px(40))
  /\ containing_block.padding = EdgeSizes(px(15), px(10), px(20), px(5))
  /\ containing_block.border = EdgeSizes(px(1), px(2), px(3), px(4))
  /\ containing_block.margin = EdgeSizes(0, 0 - px(8), 0, px(6))
  /\ ret = Rectangle(0 - px(5), px(4), px(49), px(79))

-----------------------------------------------------------------------------
(* SpecStyleTwice: style_tree run twice on the same document tree and      *)
(* stylesheet, the two results compared with the PartialEq of StyledNode   *)

\* PartialEq for css::Value
ValueEq(a, b) ==
  CASE a.type = "Keyword" /\ b.type = "Keyword" -> a.s = b.s
    [] a.type = "Length" /\ b.type = "Length" -> a.f = b.f /\ a.unit = b.unit
    [] a.type = "ColorValue" /\ b.type = "ColorValue" -> a.color = b.color
    [] OTHER -> FALSE

\* == of two PropertyMaps: the same keys with equal values.
PropertyMapEq(a, b) ==
  /\ DOMAIN a = DOMAIN b
  /\ \A k \in DOMAIN a : ValueEq(a[k], b[k])

\* A plausible slip: != written for == in the comparison of the children.
RECURSIVE StyledNodeEq_M1(_, _, _)
StyledNodeEq_M1(root, a, b) ==
  /\ NodeAt(root, a.node) = NodeAt(root, b.node)
  /\ PropertyMapEq(a.specified_values, b.specified_values)
  /\ ~ ( /\ Len(a.children) = Len(b.children)
         /\ \A i \in DOMAIN a.children :
              StyledNodeEq_M1(root, a.children[i], b.children[i]) )

\* PartialEq for StyledNode; the nodes referred to are compared by value, as
\* == on &dom::Node does.
RECURSIVE StyledNodeEq(_, _, _)
StyledNodeEq(root, a, b) ==
  /\ NodeAt(root, a.node) = NodeAt(root, b.node)
  /\ PropertyMapEq(a.specified_values, b.specified_values)
  /\ Len(a.children) = Len(b.children)
  /\ \A i \in DOMAIN a.children :
       StyledNodeEq(root, a.children[i], b.children[i])

\* The second run; its result is kept in ret, next to the first in
\* style_root.
StyleTreeAgain ==
  /\ pc = "style_tree"
  /\ ret' = style_tree(root_node, <<>>, stylesheet)
  /\ pc' = "style_tree_again"
  /\ UNCHANGED <<args, canvas, style_root, node, layout_box>>

NextStyleTwice == StyleTree \/ StyleTreeAgain

SpecStyleTwice == InitTree /\ [][NextStyleTwice]_vars

C24_OverconstraintClamp ==
  pc = "calculate_block_width" =>
    LET d == layout_box.dimensions
        ml == Declared("margin-left", "margin")
        mr == Declared("margin-right", "margin")
    IN  /\ ( /\ DeclaredWidth # Keyword("auto")
             /\ DeclaredTotal > containing_block.content.width ) =>
             /\ ml = Keyword("auto") => d.margin.left = 0
             /\ d.margin.left = DeclaredPx(ml)
             /\ d.margin.right = DeclaredPx(mr) + DeclaredUnderflow
             /\ d.margin.right < DeclaredPx(mr)
        /\ ml = Keyword("auto") => d.margin.left >= 0

\* A box of declared width wider than its container, margin-left auto and a
\* declared margin-right: margin-left is 0, margin-right takes the underflow.
C24_Witness ==
  /\ pc = "calculate_block_width"
  /\ DeclaredWidth = Length(px(120), "Px")
  /\ containing_block.content.width = px(100)
  /\ Declared("margin-left", "margin") = Keyword("auto")
  /\ Declared("margin-right", "margin") = Length(px(10), "Px")
  /\ layout_box.dimensions.margin.left = 0
  /\ layout_box.dimensions.margin.right < 0

-----------------------------------------------------------------------------
(* C25: a display:none child and the layout tree (SpecTree)                *)

\* The styled tree without the subtree at path (path is not the root).
RECURSIVE RemoveSubtree(_, _)
RemoveSubtree(tree, path) ==
  LET i == Head(path)
      n == Len(tree.children)
  IN  IF Len(path) = 1
      THEN [tree EXCEPT !.children =
              SubSeq(tree.children, 1, i - 1) \o SubSeq(tree.children, i + 1, n)]
      ELSE [tree EXCEPT !.children[i] = RemoveSubtree(@, Tail(path))]

\* A box tree with every reference to a styled node resolved to the document
\* node that styled node stands for, which names the styled node whatever
\* its position among its siblings.
RECURSIVE ResolvedBox(_, _)
ResolvedBox(styled, box) ==
  [dimensions |-> box.dimensions,
   box_type |-> IF box.box_type.type = "AnonymousBlock" THEN box.box_type
                ELSE [type |-> box.box_type.type,
                      node |-> NodeAt(styled, box.box_type.node).node],
   children |-> [i \in DOMAIN box.children |-> ResolvedBox(styled, box.children[i])]]

\* The styled nodes that are children with display none.
NoneChildren == {p \in Paths(style_root) \ {<<>>} : display(NodeAt(style_root, p)) = "None"}

\* The paths of the styled nodes on the way from the root to path, path
\* included.
Ancestors(path) == {SubSeq(path, 1, k) : k \in 0..Len(path)}

\* The child boxes of the anonymous blocks under box that refer to the styled
\* node at path.
AnonymousHolding(box, path) ==
  {i \in DOMAIN box.children :
     /\ box.children[i].box_type.type = "AnonymousBlock"
     /\ \E j \in DOMAIN box.children[i].children :
          box.children[i].children[j].box_type = InlineNode(path)}

\* C25: a child with display none contributes nothing: build_layout_tree
\* returns the box tree it returns for the styled tree without that child
\* and its subtree, no box refers to a display:none node or to a descendant
\* of one, and two inline children of a block box with only display:none
\* children between them share one AnonymousBlock.
C25_NoneChildContributesNothing ==
  pc = "build_layout_tree" =>
    /\ \A p \in NoneChildren :
         LET removed == RemoveSubtree(style_root, p)
         IN  ResolvedBox(removed, build_layout_tree(removed, <<>>))
               = ResolvedBox(style_root, layout_box)
    /\ \A b \in BoxPaths(layout_box) :
         LET box == BoxAt(layout_box, b)
         IN  box.box_type.type # "AnonymousBlock" =>
               \A q \in Ancestors(box.box_type.node) :
                 display(NodeAt(style_root, q)) # "None"
    /\ \A b \in BoxPaths(layout_box) :
         LET box == BoxAt(layout_box, b)
         IN  box.box_type.type = "BlockNode" =>
               LET n == box.box_type.node
                   kids == NodeAt(style_root, n).children
               IN  \A i \in DOMAIN kids, k \in DOMAIN kids :
                     ( /\ i < k
                       /\ display(kids[i]) = "Inline"
                       /\ display(kids[k]) = "Inline"
                       /\ \A j \in (i + 1)..(k - 1) : display(kids[j]) = "None" ) =>
                       /\ AnonymousHolding(box, n \o <<i>>) # {}
                       /\ AnonymousHolding(box, n \o <<i>>)
                            = AnonymousHolding(box, n \o <<k>>)

\* A block root with an inline child, a display:none child that has a child
\* of its own, and another inline child: one anonymous block of two boxes.
C25_Witness ==
  /\ pc = "build_layout_tree"
  /\ Len(style_root.children) = 3
  /\ display(style_root) = "Block"
  /\ display(style_root.children[1]) = "Inline"
  /\ display(style_root.children[2]) = "None"
  /\ Len(style_root.children[2].children) = 1
  /\ display(style_root.children[3]) = "Inline"
  /\ Len(layout_box.children) = 1
  /\ layout_box.children[1].box_type.type = "AnonymousBlock"
  /\ Len(layout_box.children[1].children) = 2

-----------------------------------------------------------------------------
(* C26: the layout pass of layout_tree (SpecLayout)                        *)

\* The calls the layout pass makes when layout is called on the box at path
\* of a box tree, in order, each with the box it is made on: layout
\* dispatches layout_block on a BlockNode only; layout_block asks for the
\* styled node in calculate_block_width and calculate_block_position, calls
\* layout on each child in layout_block_children, and asks for the styled
\* node again in calculate_block_height.
RECURSIVE layout_calls(_, _)
layout_calls(tree, path) ==
  LET box == BoxAt(tree, path)
      F[i \in 0..Len(box.children)] ==
        IF i = 0 THEN <<>> ELSE F[i - 1] \o layout_calls(tree, path \o <<i>>)
  IN  <<[method |-> "layout", box |-> path]>>
        \o IF box.box_type.type = "BlockNode"
           THEN <<[method |-> "layout_block", box |-> path],
                  [method |-> "get_style_node", box |-> path],
                  [method |-> "get_style_node", box |-> path]>>
                  \o F[Len(box.children)]
                  \o <<[method |-> "get_style_node", box |-> path]>>
           ELSE <<>>

\* The shape of a box tree and the type of each box, without dimensions.
RECURSIVE Skeleton(_)
Skeleton(box) ==
  [box_type |-> box.box_type,
   children |-> [i \in DOMAIN box.children |-> Skeleton(box.children[i])]]

\* C26: layout_tree on a styled tree whose root display is not None returns
\* a box tree: no panic is raised, layout is called at most once on each box,
\* layout_block only on BlockNode boxes, the styled node of an AnonymousBlock
\* is never asked for, and the tree returned has the shape and the box types
\* of the tree build_layout_tree made.
C26_LayoutPassTerminates ==
  /\ pc = "panic" => display(style_root) = "None"
  /\ pc = "layout_tree" =>
       /\ layout_box \notin {Panic, AnonymousPanic}
       /\ LET built == build_layout_tree(style_root, <<>>)
              calls == layout_calls(built, <<>>)
          IN  /\ Skeleton(layout_box) = Skeleton(built)
              /\ \A i \in DOMAIN calls, j \in DOMAIN calls :
                   ( /\ calls[i].method = "layout"
                     /\ calls[j].method = "layout"
                     /\ calls[i].box = calls[j].box ) => i = j
              /\ \A i \in DOMAIN calls :
                   LET type == BoxAt(built, calls[i].box).box_type.type
                   IN  /\ calls[i].method = "layout_block" => type = "BlockNode"
                       /\ calls[i].method = "get_style_node" => type # "AnonymousBlock"

\* A block root whose children are an anonymous block and a block, laid out.
C26_Witness ==
  /\ pc = "layout_tree"
  /\ layout_box \notin {Panic, AnonymousPanic}
  /\ layout_box.box_type.type = "BlockNode"
  /\ Len(layout_box.children) = 2
  /\ layout_box.children[1].box_type.type = "AnonymousBlock"
  /\ layout_box.children[2].box_type.type = "BlockNode"
  /\ layout_box.children[2].dimensions.content.width > 0

-----------------------------------------------------------------------------
(* text_parser.rs and css_parser.rs: the selector list of a rule           *)

\* A String is the sequence of its characters; the inputs are ASCII, so a
\* byte position is a character position.  TextParser { position, input }.
TextParser(position, input) == [position |-> position, input |-> input]

\* CSSParser::new: the text parser is the whole state of the CSS parser.
CSSParser(position, input) == TextParser(position, input)

\* Option::unwrap on None: next_char past the end of the input.
UnwrapPanic == [panic |-> "called Option::unwrap() on a None value"]

\* panic!("Unexpected character {} in selector list", c)
SelectorListPanic == [panic |-> "Unexpected character in selector list"]

\* TextParser::eof
eof(p) == p.position >= Len(p.input)

\* TextParser::next_char
next_char(p) == IF eof(p) THEN UnwrapPanic ELSE p.input[p.position + 1]

\* TextParser::consume_char: the parser after the call and the character.
consume_char(p) ==
  IF eof(p) THEN UnwrapPanic
  ELSE [parser |-> [p EXCEPT !.position = @ + 1], char |-> p.input[p.position + 1]]

\* TextParser::consume_while, the test given as the set of the characters
\* that pass it: the parser after the call and the characters consumed.
RECURSIVE consume_while(_, _)
consume_while(p, test) ==
  IF ~eof(p) /\ next_char(p) \in test
  THEN LET c == consume_char(p)
           r == consume_while(c.parser, test)
       IN  [parser |-> r.parser, result |-> <<c.char>> \o r.result]
  ELSE [parser |-> p, result |-> <<>>]

\* char::is_whitespace on ASCII
Whitespace == {" ", "\t", "\n", "\r", "\f"}

\* TextParser::consume_whitespace: the parser after the call.
consume_whitespace(p) == consume_while(p, Whitespace).parser

\* valid_identifier_char: the letters a to z and A to Z, the digits, - and _
IdentifierChars ==
  {"a", "b", "c", "d", "e", "f", "g", "h", "i", "j", "k", "l", "m",
   "n", "o", "p", "q", "r", "s", "t", "u", "v", "w", "x", "y", "z",
   "A", "B", "C", "D", "E", "F", "G", "H", "I", "J", "K", "L", "M",
   "N", "O", "P", "Q", "R", "S", "T", "U", "V", "W", "X", "Y", "Z",
   "0", "1", "2", "3", "4", "5", "6", "7", "8", "9", "-", "_"}

valid_identifier_char(c) == c \in IdentifierChars

\* CSSParser::parse_identifier
parse_identifier(p) == consume_while(p, IdentifierChars)

\* The loop of parse_simple_selector, entered with the selector made so far.
RECURSIVE parse_simple_selector_while(_, _)
parse_simple_selector_while(p, sel) ==
  IF eof(p) THEN [parser |-> p, selector |-> sel]
  ELSE
    LET c == next_char(p)
    IN  CASE c = "#" ->
               LET r == parse_identifier(consume_char(p).parser)
               IN  parse_simple_selector_while(r.parser, [sel EXCEPT !.id = {r.result}])
          [] c = "." ->
               LET r == parse_identifier(consume_char(p).parser)
               IN  parse_simple_selector_while(
                     r.parser, [sel EXCEPT !.classes = Append(@, r.result)])
          [] c = "*" ->
               parse_simple_selector_while(consume_char(p).parser, sel)
          [] c \notin {"#", ".", "*"} /\ valid_identifier_char(c) ->
               LET r == parse_identifier(p)
               IN  parse_simple_selector_while(
                     r.parser, [sel EXCEPT !.tag_name = {r.result}])
          [] OTHER -> [parser |-> p, selector |-> sel]

\* CSSParser::parse_simple_selector: the parser after the call and the
\* selector.
parse_simple_selector(p) ==
  parse_simple_selector_while(p, SimpleSelector({}, {}, <<>>))

\* A plausible slip: a selector is put before the selectors of the same
\* specificity, so that ties come out in reverse.
sort_by_specificity_M1(selectors) ==
  LET F[i \in 0..Len(selectors)] ==
        IF i = 0 THEN <<>>
        ELSE LET s == F[i - 1]
                 x == selectors[i]
                 k == Cardinality({j \in DOMAIN s :
                        cmp(specificity(x), specificity(s[j])) = "Less"})
             IN  SubSeq(s, 1, k) \o <<x>> \o SubSeq(s, k + 1, Len(s))
  IN  F[Len(selectors)]

\* selectors.sort_by(|a, b| b.specificity().cmp(&a.specificity())): the
\* stable sort of the slice, a before b when the comparison of b with a is
\* Less.  Each selector goes after the selectors that do not have to follow
\* it, which is what every stable sort returns.
sort_by_specificity(selectors) ==
  LET F[i \in 0..Len(selectors)] ==
        IF i = 0 THEN <<>>
        ELSE LET s == F[i - 1]
                 x == selectors[i]
                 k == Cardinality({j \in DOMAIN s :
                        cmp(specificity(x), specificity(s[j])) # "Greater"})
             IN  SubSeq(s, 1, k) \o <<x>> \o SubSeq(s, k + 1, Len(s))
  IN  F[Len(selectors)]

\* The loop of parse_selectors, entered with the selectors pushed so far:
\* the parser at the opening brace and the selectors as written, or the panic.
RECURSIVE parse_selectors_loop(_, _)
parse_selectors_loop(p, selectors) ==
  LET s == parse_simple_selector(p)
      pushed == Append(selectors, s.selector)
      q == consume_whitespace(s.parser)
      c == next_char(q)
  IN  IF eof(q) THEN UnwrapPanic
      ELSE CASE c = "," ->
                  parse_selectors_loop(consume_whitespace(consume_char(q).parser), pushed)
             [] c = "{" -> [parser |-> q, selectors |-> pushed]
             [] OTHER -> SelectorListPanic

\* CSSParser::parse_selectors: the parser after the call and the vector
\* returned, or the panic.
parse_selectors(p) ==
  LET r == parse_selectors_loop(p, <<>>)
  IN  IF r \in {UnwrapPanic, SelectorListPanic} THEN r
      ELSE [parser |-> r.parser, selectors |-> sort_by_specificity(r.selectors)]

-----------------------------------------------------------------------------
(* SpecParse: parse_simple_selector and parse_selectors on the text of a   *)
(* selector list of up to MaxParsedSelectors selectors                     *)

MaxParsedSelectors == 3

\* Texts of one simple selector, the empty text among them.
SelectorTexts ==
  { <<"a">>, <<"b">>, <<"*">>, <<>>,
    <<"#", "a">>, <<".", "a">>, <<"a", ".", "b">>,
    <<"h", "1", "#", "b", ".", "a", ".", "c">> }

SelectorSeparators == { <<",">>, <<",", " ">>, <<" ", ",", "\n">> }

\* What follows the list: the start of the declarations, nothing, or a
\* character that cannot follow a selector.
SelectorListEnds == { <<"{", "}">>, <<" ", "{", "}">>, <<>>, <<"}">> }

\* The texts joined by the separator and followed by the end.
SelectorListText(texts, separator, end) ==
  LET F[i \in 0..Len(texts)] ==
        IF i = 0 THEN <<>>
        ELSE IF i = 1 THEN texts[1]
        ELSE F[i - 1] \o separator \o texts[i]
  IN  F[Len(texts)] \o end

InitParse ==
  /\ pc = "start"
  /\ \E k \in 1..MaxParsedSelectors :
       \E texts \in [1..k -> SelectorTexts] :
         \E separator \in SelectorSeparators, end \in SelectorListEnds :
           css_parser = CSSParser(0, SelectorListText(texts, separator, end))
  /\ canvas = Unused
  /\ item = Unused
  /\ element = Unused
  /\ selector = Unused
  /\ rule = Unused
  /\ stylesheet = Unused
  /\ root_node = Unused
  /\ style_root = Unused
  /\ node = Unused
  /\ layout_box = Unused
  /\ containing_block = Unused
  /\ ret = Unused

ParseSimpleSelector ==
  /\ pc = "start"
  /\ ret' = parse_simple_selector(css_parser)
  /\ pc' = "parse_simple_selector"
  /\ UNCHANGED <<args, canvas, style_root, node, layout_box>>

ParseSelectors ==
  /\ pc = "start"
  /\ ret' = parse_selectors(css_parser)
  /\ pc' = "parse_selectors"
  /\ UNCHANGED <<args, canvas, style_root, node, layout_box>>

NextParse == ParseSimpleSelector \/ ParseSelectors

SpecParse == InitParse /\ [][NextParse]_vars

\* The selectors of a vector that have a given specificity, in order.
WithSpecificity(selectors, t) ==
  LET F[i \in 0..Len(selectors)] ==
        IF i = 0 THEN <<>>
        ELSE IF specificity(selectors[i]) = t THEN Append(F[i - 1], selectors[i])
        ELSE F[i - 1]
  IN  F[Len(selectors)]

\* The selectors of the list in the order they are written in, read one
\* after the other without the sort.
Written == parse_selectors_loop(css_parser, <<>>).selectors

\* C27: the vector parse_selectors returns is in order of non-increasing
\* specificity, and the selectors of one specificity are the written ones of
\* that specificity in the order they were written in.
C27_ParseSelectorsSorted ==
  ( /\ pc = "parse_selectors"
    /\ ret \notin {UnwrapPanic, SelectorListPanic} ) =>
      /\ Len(ret.selectors) = Len(Written)
      /\ \A i \in DOMAIN ret.selectors, j \in DOMAIN ret.selectors :
           i < j => cmp(specificity(ret.selectors[i]),
                        specificity(ret.selectors[j])) # "Less"
      /\ \A i \in DOMAIN Written :
           LET t == specificity(Written[i])
           IN  WithSpecificity(ret.selectors, t) = WithSpecificity(Written, t)

\* "a, #a, b{}": the id selector moves to the front, a stays before b.
C27_Witness ==
  /\ pc = "parse_selectors"
  /\ css_parser.input = <<"a", ",", " ", "#", "a", ",", " ", "b", "{", "}">>
  /\ ret.selectors = << SimpleSelector({}, {<<"a">>}, <<>>),
                        SimpleSelector({<<"a">>}, {}, <<>>),
                        SimpleSelector({<<"b">>}, {}, <<>>) >>
  /\ ret.parser.position = 8

-----------------------------------------------------------------------------
(* painting.rs: the canvas and the solid-colour display command            *)

\* css::Color::new(r, g, b, a)
Color(r, g, b, a) == <<r, g, b, a>>

\* DisplayCommand::SolidColor(color, rectangle); the rectangle is in half
\* pixels as every f32 length is.
SolidColor(color, rectangle) ==
  [type |-> "SolidColor", color |-> color, rectangle |-> rectangle]

\* Canvas::new: a blank canvas of width * height white pixels, row by row.
Canvas(width, height) ==
  [pixels |-> [i \in 1..(width * height) |-> Color(255, 255, 255, 255)],
   width |-> width, height |-> height]

\* f32::clamp with lower <= upper: self.max(lower).min(upper)
clamp(self, lower, upper) ==
  LET m == IF self > lower THEN self ELSE lower
  IN  IF m < upper THEN m ELSE upper

\* usize as f32, exact for the sizes of a canvas
as_f32(n) == px(n)

\* f32 as usize: the fraction is dropped, a negative value becomes 0
as_usize(f) == IF f <= 0 THEN 0 ELSE Half(f)

\* Index out of bounds in self.pixels[x + y * self.width]
IndexPanic == [panic |-> "index out of bounds"]

\* A plausible slip: the bottom of the rectangle is clipped to the width of
\* the canvas.
paint_item_M1(c, command) ==
  LET rectangle == command.rectangle
      x0 == as_usize(clamp(rectangle.x, 0, as_f32(c.width)))
      y0 == as_usize(clamp(rectangle.y, 0, as_f32(c.height)))
      x1 == as_usize(clamp(rectangle.x + rectangle.width, 0, as_f32(c.width)))
      y1 == as_usize(clamp(rectangle.y + rectangle.height, 0, as_f32(c.width)))
      indexed == {x + y * c.width : x \in x0..(x1 - 1), y \in y0..(y1 - 1)}
  IN  IF \E i \in indexed : i >= Len(c.pixels) THEN IndexPanic
      ELSE [c EXCEPT !.pixels =
              [i \in DOMAIN c.pixels |->
                 IF (i - 1) \in indexed THEN command.color ELSE c.pixels[i]]]

\* Canvas::paint_item on a SolidColor command: the canvas after the call, or
\* the panic of an index outside the pixel vector.  The loops write
\* pixels[x + y * width] for y in y0..y1 and x in x0..x1.
paint_item(c, command) ==
  LET rectangle == command.rectangle
      x0 == as_usize(clamp(rectangle.x, 0, as_f32(c.width)))
      y0 == as_usize(clamp(rectangle.y, 0, as_f32(c.height)))
      x1 == as_usize(clamp(rectangle.x + rectangle.width, 0, as_f32(c.width)))
      y1 == as_usize(clamp(rectangle.y + rectangle.height, 0, as_f32(c.height)))
      indexed == {x + y * c.width : x \in x0..(x1 - 1), y \in y0..(y1 - 1)}
  IN  IF \E i \in indexed : i >= Len(c.pixels) THEN IndexPanic
      ELSE [c EXCEPT !.pixels =
              [i \in DOMAIN c.pixels |->
                 IF (i - 1) \in indexed THEN command.color ELSE c.pixels[i]]]

-----------------------------------------------------------------------------
(* SpecPaint: paint_item on a canvas of up to MaxCanvasWidth by            *)
(* MaxCanvasHeight pixels, blank or painted on before, and on the canvas   *)
(* of test_paint_item                                                      *)

MaxCanvasWidth == 3
MaxCanvasHeight == 2

Red == Color(255, 0, 0, 255)
Blue == Color(0, 0, 255, 255)

\* Rectangles on a grid of half pixels, from one pixel before the largest
\* canvas to one pixel after it, of negative, zero and positive sizes.
PaintRectangles ==
  { Rectangle(x, y, w, h) :
      x \in (0 - px(1))..(px(MaxCanvasWidth) + 1),
      y \in (0 - px(1))..(px(MaxCanvasHeight) + 1),
      w \in {0 - px(1), 0, 1, px(1), px(1) + 1, px(MaxCanvasWidth) + px(2)},
      h \in {0 - px(1), 0, 1, px(1), px(1) + 1, px(MaxCanvasHeight) + px(2)} }

\* test_paint_item: the border box of a 50 x 50 block laid out below a
\* containing block 100 high.
TestItem == SolidColor(Red, Rectangle(0, px(100), px(50), px(50)))

\* The command painted before the one under test.
EarlierItem == SolidColor(Blue, Rectangle(px(1), 0, px(1), px(2)))

InitPaint ==
  /\ pc = "start"
  /\ css_parser = Unused
  /\ canvas = Unused
  /\ item \in {SolidColor(Red, r) : r \in PaintRectangles} \cup {TestItem}
  /\ element = Unused
  /\ selector = Unused
  /\ rule = Unused
  /\ stylesheet = Unused
  /\ root_node = Unused
  /\ style_root = Unused
  /\ node = Unused
  /\ layout_box = Unused
  /\ containing_block = Unused
  /\ ret = Unused

\* Canvas::new
CanvasNew ==
  /\ pc = "start"
  /\ IF item = TestItem
     THEN canvas' = Canvas(200, 200)
     ELSE \E width \in 1..MaxCanvasWidth, height \in 1..MaxCanvasHeight :
            canvas' = Canvas(width, height)
  /\ pc' = "new"
  /\ UNCHANGED <<args, style_root, node, layout_box, ret>>

\* paint_item of an earlier command of the display list
PaintEarlierItem ==
  /\ pc = "new"
  /\ item # TestItem
  /\ canvas' = paint_item(canvas, EarlierItem)
  /\ pc' = "painted"
  /\ UNCHANGED <<args, style_root, node, layout_box, ret>>

PaintItem ==
  /\ pc \in {"new", "painted"}
  /\ LET c == paint_item(canvas, item)
     IN  IF c = IndexPanic
         THEN pc' = "panic" /\ UNCHANGED canvas
         ELSE pc' = "paint_item" /\ canvas' = c
  /\ UNCHANGED <<args, style_root, node, layout_box, ret>>

NextPaint == CanvasNew \/ PaintEarlierItem \/ PaintItem

SpecPaint == InitPaint /\ [][NextPaint]_vars

\* The pixel (x, y) of a canvas.
Pixel(c, x, y) == c.pixels[x + y * c.width + 1]

\* The number of pixels of a canvas that have a colour.
PixelCount(c, color) == Cardinality({i \in DOMAIN c.pixels : c.pixels[i] = color})

\* C28 as stated: paint_item sets to the colour exactly the pixels (x, y)
\* with x0 <= x < x1 and y0 <= y < y1, x0 and x1 being rectangle.x and
\* rectangle.x + rectangle.width clamped to [0, width], y0 and y1 likewise
\* to [0, height]; it indexes no pixel outside the vector, whose length stays
\* width * height, and leaves every other pixel as it was.
C28_PaintsClampedRectangle ==
  [][ ( pc \in {"new", "painted"} /\ pc' \in {"paint_item", "panic"} ) =>
        LET r == item.rectangle
            x0 == clamp(r.x, 0, as_f32(canvas.width))
            x1 == clamp(r.x + r.width, 0, as_f32(canvas.width))
            y0 == clamp(r.y, 0, as_f32(canvas.height))
            y1 == clamp(r.y + r.height, 0, as_f32(canvas.height))
        IN  /\ pc' # "panic"
            /\ canvas'.width = canvas.width /\ canvas'.height = canvas.height
            /\ Len(canvas'.pixels) = canvas.width * canvas.height
            /\ \A x \in 0..(canvas.width - 1), y \in 0..(canvas.height - 1) :
                 Pixel(canvas', x, y) =
                   IF /\ x0 <= as_f32(x) /\ as_f32(x) < x1
                      /\ y0 <= as_f32(y) /\ as_f32(y) < y1
                   THEN item.color
                   ELSE Pixel(canvas, x, y) ]_vars

\* C28, amended: the same with x0, x1, y0 and y1 the clamped values with
\* their fraction dropped, as the conversion to usize leaves them; the
\* rectangle of test_paint_item paints exactly 2500 pixels.
C28_PaintsTruncatedRectangle ==
  [][ ( pc \in {"new", "painted"} /\ pc' \in {"paint_item", "panic"} ) =>
        LET r == item.rectangle
            x0 == as_usize(clamp(r.x, 0, as_f32(canvas.width)))
            x1 == as_usize(clamp(r.x + r.width, 0, as_f32(canvas.width)))
            y0 == as_usize(clamp(r.y, 0, as_f32(canvas.height)))
            y1 == as_usize(clamp(r.y + r.height, 0, as_f32(canvas.height)))
        IN  /\ pc' # "panic"
            /\ canvas'.width = canvas.width /\ canvas'.height = canvas.height
            /\ Len(canvas'.pixels) = canvas.width * canvas.height
            /\ \A x \in 0..(canvas.width - 1), y \in 0..(canvas.height - 1) :
                 Pixel(canvas', x, y) =
                   IF x0 <= x /\ x < x1 /\ y0 <= y /\ y < y1
                   THEN item.color
                   ELSE Pixel(canvas, x, y)
            /\ item = TestItem => PixelCount(canvas', Red) = 2500 ]_vars

\* A rectangle from half a pixel to one and a half pixels, both ways, on a
\* canvas painted on before: the pixel (0, 0) alone is painted.
C28_Witness ==
  /\ pc = "paint_item"
  /\ item = SolidColor(Red, Rectangle(1, 1, px(1), px(1)))
  /\ canvas.width = 3 /\ canvas.height = 2
  /\ canvas.pixels = <<Red, Blue, Color(255, 255, 255, 255),
                       Color(255, 255, 255, 255), Blue, Color(255, 255, 255, 255)>>

\* The canvas of test_paint_item after the call: 2500 red pixels, the rows
\* 100 to 149 of the columns 0 to 49.
C28_TestPaintItem ==
  /\ pc = "paint_item"
  /\ item = TestItem
  /\ PixelCount(canvas, Red) = 2500
  /\ \A x \in 0..49, y \in 100..149 : Pixel(canvas, x, y) = Red

-----------------------------------------------------------------------------
(* C29: well-formedness of the box tree build_layout_tree returns          *)
(* (SpecTree)                                                              *)

\* The type of the box at a path of the current box tree.
TypeAt(path) == BoxAt(layout_box, path).box_type.type

\* C29: in the tree build_layout_tree returns, an AnonymousBlock is a child
\* of a BlockNode box, has at least one child and only InlineNode children;
\* no two adjacent siblings are both AnonymousBlock; no InlineNode box is a
\* direct child of a BlockNode box; the root is not an AnonymousBlock.
C29_WellFormedBoxTree ==
  pc = "build_layout_tree" =>
    /\ TypeAt(<<>>) # "AnonymousBlock"
    /\ \A b \in BoxPaths(layout_box) :
         LET box == BoxAt(layout_box, b)
             n == Len(box.children)
         IN  /\ box.box_type.type = "AnonymousBlock" =>
                  /\ b # <<>>
                  /\ TypeAt(SubSeq(b, 1, Len(b) - 1)) = "BlockNode"
                  /\ n >= 1
                  /\ \A i \in 1..n : box.children[i].box_type.type = "InlineNode"
             /\ \A i \in 1..(n - 1) :
                  ~ ( /\ box.children[i].box_type.type = "AnonymousBlock"
                      /\ box.children[i + 1].box_type.type = "AnonymousBlock" )
             /\ box.box_type.type = "BlockNode" =>
                  \A i \in 1..n : box.children[i].box_type.type # "InlineNode"

\* A block root with two anonymous blocks around a block child, and an
\* inline box that holds a block box inside the first of them.
C29_Witness ==
  /\ pc = "build_layout_tree"
  /\ TypeAt(<<>>) = "BlockNode"
  /\ Len(layout_box.children) = 3
  /\ TypeAt(<<1>>) = "AnonymousBlock"
  /\ TypeAt(<<2>>) = "BlockNode"
  /\ TypeAt(<<3>>) = "AnonymousBlock"
  /\ TypeAt(<<1, 1>>) = "InlineNode"
  /\ Len(BoxAt(layout_box, <<1, 1>>).children) = 1
  /\ TypeAt(<<1, 1, 1>>) = "BlockNode"

-----------------------------------------------------------------------------
(* SpecRelayout: layout_block called a second time on the root of a laid   *)
(* out box tree, with the same containing block                            *)

\* The second call; ret keeps the tree the first call left.
LayoutBlockAgain ==
  /\ pc = "layout_block"
  /\ LET b == layout_block(style_root, layout_box, containing_block)
     IN  IF b = AnonymousPanic
         THEN pc' = "panic" /\ UNCHANGED <<layout_box, ret>>
         ELSE pc' = "layout_block_again" /\ layout_box' = b /\ ret' = layout_box
  /\ UNCHANGED <<args, canvas, style_root, node>>

NextRelayout == BuildLayoutTree \/ LayoutBlock \/ LayoutBlockAgain

SpecRelayout == InitAnonymous /\ [][NextRelayout]_vars

\* The children of a box that are BlockNode boxes.
BlockChildren(box) ==
  {i \in DOMAIN box.children : box.children[i].box_type.type = "BlockNode"}

\* The sum of the heights of the margin boxes of the children of a box.
ChildrenExtent(box) ==
  LET F[i \in 0..Len(box.children)] ==
        IF i = 0 THEN 0
        ELSE F[i - 1] + margin_box(box.children[i].dimensions).height
  IN  F[Len(box.children)]

\* C30 as stated: a second layout_block on a laid out BlockNode box with the
\* same containing block leaves the Dimensions of the box and of all its
\* descendants as the first call left them.
C30_RelayoutIdempotent ==
  ( /\ pc = "layout_block_again"
    /\ layout_box.box_type.type = "BlockNode" ) => layout_box = ret

\* C30, amended: the second call leaves the box's own x, y, width and edges
\* as they were, and the whole tree when the box has no BlockNode child;
\* with BlockNode children the loop starts from the content height the
\* first call left, so the first BlockNode child is placed lower by that
\* height, and unless the box declares a height in pixels its content
\* height is the former height plus the extent of the children.
C30_RelayoutShiftsChildren ==
  ( /\ pc = "layout_block_again"
    /\ layout_box.box_type.type = "BlockNode" ) =>
      LET first == ret.dimensions
          second == layout_box.dimensions
          blocks == BlockChildren(ret)
          h == value(style_root, "height")
      IN  /\ second.content.x = first.content.x
          /\ second.content.y = first.content.y
          /\ second.content.width = first.content.width
          /\ second.padding = first.padding
          /\ second.border = first.border
          /\ second.margin = first.margin
          /\ blocks = {} => layout_box = ret
          /\ blocks # {} =>
               LET k == CHOOSE i \in blocks : \A j \in blocks : i <= j
               IN  layout_box.children[k].dimensions.content.y
                     = ret.children[k].dimensions.content.y + first.content.height
          /\ second.content.height =
               IF h # {} /\ (CHOOSE v \in h : TRUE).type = "Length"
               THEN first.content.height
               ELSE first.content.height + ChildrenExtent(layout_box)

\* A block root without a declared height and one block child 40 high: the
\* first call leaves height 40, the second 80 with the child 40 lower.
C30_Witness ==
  /\ pc = "layout_block_again"
  /\ layout_box.box_type.type = "BlockNode"
  /\ Len(layout_box.children) = 1
  /\ layout_box.children[1].box_type.type = "BlockNode"
  /\ ret.dimensions.content.height = px(40)
  /\ layout_box.dimensions.content.height = px(80)
  /\ layout_box.children[1].dimensions.content.y
       = ret.children[1].dimensions.content.y + px(40)

====
